---- MODULE Spec2Model ----
(***************************************************************************)
(* Model of agent-rules-mcp: the RuleManager (per-domain cache with TTL,   *)
(* in-flight promise table, batch and listing operations) and the          *)
(* get_rules / list_rules tool handlers of the MCP server.                 *)
(*                                                                         *)
(* JavaScript runs the code of one task until its next `await`; a step of  *)
(* the model is one such run-to-suspension segment.  The GitHub file       *)
(* reader is seen from the manager: a call of ruleExists, readRuleFile or  *)
(* listRuleFiles suspends the caller and later returns one of the outcomes *)
(* its code can produce.                                                   *)
(***************************************************************************)
EXTENDS Integers, Sequences, FiniteSets, TLC

(***************************************************************************)
(* Bounds of the model.                                                    *)
(***************************************************************************)
\* Number of top-level calls (tool requests, manager calls) in one run.
MaxReqs == 2
\* Number of clock advances in one run.
MaxTicks == 2

(***************************************************************************)
(* Program constants.  Time is in milliseconds, as Date.now().             *)
(***************************************************************************)
CACHE_TTL == 5 * 60 * 1000
\* The clock advances in steps of half a TTL, so that an entry is seen
\* fresh (age 0), valid (age TTL/2), just expired (age TTL) and older.
TickMs == CACHE_TTL \div 2
StartTime == 1
\* listAvailableDomains skips per-domain resolution above this many domains
\* when no token is configured.
NoTokenListLimit == 5

(***************************************************************************)
(* Strings are sequences of characters.                                    *)
(***************************************************************************)
Letters == {"a", "b", "c", "d", "e", "f"}
Digits == {"7"}
A == <<"a">>
B == <<"b">>
Empty == <<>>
Blank == <<" ">>
BadA == <<"a", "@">>
DotA == <<"a", ".">>

\* String.prototype.trim on a character sequence.
WhiteSpace == {" ", "\n"}
RECURSIVE TrimLeft(_)
TrimLeft(s) ==
  IF s # <<>> /\ Head(s) \in WhiteSpace THEN TrimLeft(Tail(s)) ELSE s
RECURSIVE TrimRight(_)
TrimRight(s) ==
  IF s # <<>> /\ s[Len(s)] \in WhiteSpace THEN TrimRight(SubSeq(s, 1, Len(s) - 1)) ELSE s
Trim(s) == TrimRight(TrimLeft(s))

(***************************************************************************)
(* JavaScript values of the get_rules arguments.                           *)
(*   domain  : [t, s]      t in undefined | string | number                *)
(*   domains : [t, s, xs]  t in undefined | string | array, xs of [t, s]   *)
(***************************************************************************)
Undef == [t |-> "undefined", s |-> <<>>]
Str(s) == [t |-> "string", s |-> s]
Num == [t |-> "number", s |-> <<"7">>]
NoDomains == [t |-> "undefined", s |-> <<>>, xs |-> <<>>]
StrDomains(s) == [t |-> "string", s |-> s, xs |-> <<>>]
Arr(xs) == [t |-> "array", s |-> <<>>, xs |-> xs]

\* ToBoolean: undefined and "" are falsy; a non-zero number, a non-empty
\* string and every array (the empty one too) are truthy.
Truthy(v) ==
  CASE v.t = "undefined" -> FALSE
    [] v.t = "string" -> Len(v.s) > 0
    [] OTHER -> TRUE

(***************************************************************************)
(* index.ts: argument validation of get_rules.                             *)
(***************************************************************************)
Accept(list) == [ok |-> TRUE, code |-> "none", list |-> list]
Reject(code) == [ok |-> FALSE, code |-> code, list |-> <<>>]

\* ErrorHandler.handleDomainValidationError(domain): builds an
\* InvalidParams McpError; it calls domain.trim(), a TypeError when the
\* (truthy) argument is not a string.
handleDomainValidationError(d) ==
  IF Truthy(d) /\ d.t # "string" THEN "InternalError" ELSE "InvalidParams"

validateDomainInput(domain, domains) ==
  LET hasOnlyDomain == Truthy(domain) /\ ~Truthy(domains)
      hasOnlyDomains == Truthy(domains) /\ ~Truthy(domain)
  IN  IF ~hasOnlyDomain /\ ~hasOnlyDomains THEN Reject("InvalidParams")
      ELSE IF hasOnlyDomain
        THEN IF domain.t # "string" \/ Len(Trim(domain.s)) = 0
               THEN Reject(handleDomainValidationError(domain))
               ELSE Accept(<<domain.s>>)
      ELSE IF domains.t # "array" \/ Len(domains.xs) = 0
        THEN Reject("InvalidParams")
      ELSE IF \E i \in 1..Len(domains.xs) :
                 domains.xs[i].t # "string" \/ Len(Trim(domains.xs[i].s)) = 0
        THEN Reject("InvalidParams")
      ELSE Accept([i \in 1..Len(domains.xs) |-> domains.xs[i].s])

\* The class [a-zA-Z0-9\-_] of the sanitizing regular expression.
SanitizeChar(c) == c \in Letters \cup Digits \cup {"-", "_"}

\* d.replace(/[^a-zA-Z0-9\-_]/g, '')
Sanitized(d) == SelectSeq(d, SanitizeChar)

\* A sanitizer that uses the sanitized form without complaint.
sanitizeSilently(list) == Accept([i \in 1..Len(list) |-> Sanitized(list[i])])

\* sanitizeDomains: throws on the first domain that sanitizing changes.
sanitizeDomains(list) ==
  LET bad == {i \in 1..Len(list) : Sanitized(list[i]) # list[i]}
  IN  IF bad # {}
        THEN LET first == CHOOSE i \in bad : \A j \in bad : i <= j
             IN  Reject(handleDomainValidationError(Str(list[first])))
        ELSE Accept([i \in 1..Len(list) |-> Sanitized(list[i])])

(***************************************************************************)
(* Values of the manager.                                                  *)
(***************************************************************************)
\* File texts the remote repository can serve for a domain.
Texts == {"v1", "v2"}

\* RuleContent | null
Null == [isNull |-> TRUE, domain |-> <<>>, content |-> "", description |-> ""]

\* Settled and pending promises.
Pending == [status |-> "pending", value |-> Null]
Fulfilled(v) == [status |-> "fulfilled", value |-> v]
Rejected == [status |-> "rejected", value |-> Null]

\* Map.set, Map.delete on functions with a finite domain.
MapSet(m, k, v) == [x \in (DOMAIN m) \cup {k} |-> IF x = k THEN v ELSE m[x]]
MapDelete(m, k) == [x \in (DOMAIN m) \ {k} |-> m[x]]
EmptyMap == <<>>

\* The description parseRuleContent gives a text: taken from its metadata or
\* generated from its content.  The description generated from a first
\* heading that is blank after trimming is the empty string.
DescriptionOf(text) == IF text = "v1" THEN "React best practices" ELSE ""

\* GitHubRepositoryFileReader.parseRuleContent: total, and the domain of the
\* result is the domain argument.
parseRuleContent(text, domain) ==
  [isNull |-> FALSE, domain |-> domain, content |-> text,
   description |-> DescriptionOf(text)]

\* Domains for which the remote repository holds a file.
RemoteDomains == {A, B}

\* What readRuleFile(D) can do: return the text of a file, or throw.
ReadOutcomes(D) ==
  (IF D \in RemoteDomains THEN {[ok |-> TRUE, text |-> x] : x \in Texts} ELSE {})
    \cup {[ok |-> FALSE, text |-> ""]}

\* Domains with which getRuleContent and getRuleContentSafe are called
\* directly.
CallDomains == {A, B, Empty}
SafeDomains == {A, B}
\* Domain lists given to getMultipleRuleContents.
MultiLists == {<<A, B>>, <<A, A>>}
\* What listRuleFiles can return: valid domains, each once.  The long
\* listing has more domains than listAvailableDomains resolves without a
\* token.
LongListing == <<A, B, <<"c">>, <<"d">>, <<"e">>, <<"f">>>>
Listings == {<<>>, <<A, B>>, LongListing}

\* Arguments of get_rules requests.
GetRulesArgs ==
  { [domain |-> Undef, domains |-> NoDomains],
    [domain |-> Str(A), domains |-> NoDomains],
    [domain |-> Str(Empty), domains |-> NoDomains],
    [domain |-> Str(Blank), domains |-> NoDomains],
    [domain |-> Str(BadA), domains |-> NoDomains],
    [domain |-> Str(DotA), domains |-> NoDomains],
    [domain |-> Num, domains |-> NoDomains],
    [domain |-> Undef, domains |-> Arr(<<Str(A), Str(B)>>)],
    [domain |-> Undef, domains |-> Arr(<<Str(A), Str(A)>>)],
    [domain |-> Undef, domains |-> Arr(<<>>)],
    [domain |-> Undef, domains |-> StrDomains(A)],
    [domain |-> Undef, domains |-> Arr(<<Str(A), Str(Empty)>>)],
    [domain |-> Undef, domains |-> Arr(<<Str(A), Num>>)],
    [domain |-> Undef, domains |-> Arr(<<Str(A), Str(BadA)>>)],
    [domain |-> Undef, domains |-> Arr(<<Str(BadA), Str(B)>>)],
    [domain |-> Str(A), domains |-> Arr(<<Str(B)>>)],
    [domain |-> Str(A), domains |-> Arr(<<>>)],
    [domain |-> Str(Empty), domains |-> Arr(<<Str(B)>>)],
    [domain |-> Str(BadA), domains |-> StrDomains(Empty)],
    [domain |-> Str(B), domains |-> NoDomains],
    [domain |-> Undef, domains |-> Arr(<<Str(A)>>)],
    [domain |-> Str(A), domains |-> StrDomains(Empty)],
    [domain |-> Num, domains |-> Arr(<<Str(BadA)>>)] }

(***************************************************************************)
(* GitHubRepositoryFileReader: file names and domains.  A string is the    *)
(* sequence of its characters.                                             *)
(***************************************************************************)
LowerLetters ==
  {"a", "b", "c", "d", "e", "f", "g", "h", "i", "j", "k", "l", "m", "n", "o",
   "p", "q", "r", "s", "t", "u", "v", "w", "x", "y", "z"}
UpperLetters ==
  {"A", "B", "C", "D", "E", "F", "G", "H", "I", "J", "K", "L", "M", "N", "O",
   "P", "Q", "R", "S", "T", "U", "V", "W", "X", "Y", "Z"}

ExtMd == <<".", "m", "d">>
ExtMdc == <<".", "m", "d", "c">>
Chatmode == <<".", "c", "h", "a", "t", "m", "o", "d", "e">>
Prompt == <<".", "p", "r", "o", "m", "p", "t">>
Instructions ==
  <<".", "i", "n", "s", "t", "r", "u", "c", "t", "i", "o", "n", "s">>
Readme == <<"R", "E", "A", "D", "M", "E">>
Contributing ==
  <<"C", "O", "N", "T", "R", "I", "B", "U", "T", "I", "N", "G">>
CodeOfConduct ==
  <<"C", "O", "D", "E", "_", "O", "F", "_", "C", "O", "N", "D", "U", "C", "T">>
Security == <<"S", "E", "C", "U", "R", "I", "T", "Y">>
Support == <<"S", "U", "P", "P", "O", "R", "T">>
License == <<"L", "I", "C", "E", "N", "S", "E">>

\* String.prototype.endsWith, startsWith, and slice(0, -n) of a string that
\* has at least n characters.
EndsWith(s, suffix) ==
  /\ Len(s) >= Len(suffix)
  /\ SubSeq(s, Len(s) - Len(suffix) + 1, Len(s)) = suffix
StartsWith(s, prefix) ==
  /\ Len(s) >= Len(prefix)
  /\ SubSeq(s, 1, Len(prefix)) = prefix
DropLast(s, n) == SubSeq(s, 1, Len(s) - n)

\* const compoundExtensions = ['.chatmode', '.prompt', '.instructions']
compoundExtensions == <<Chatmode, Prompt, Instructions>>

\* The extensions readRuleFile tries, in its order.
extensions ==
  <<Chatmode \o ExtMd, Prompt \o ExtMd, Instructions \o ExtMd, ExtMd, ExtMdc>>

\* An extractDomainFromFilename that strips the last extension only.
stripLastExtensionOnly(filename) ==
  IF EndsWith(filename, ExtMd) THEN DropLast(filename, 3)
  ELSE IF EndsWith(filename, ExtMdc) THEN DropLast(filename, 4)
  ELSE filename

\* extractDomainFromFilename: a trailing .md is dropped, and then the first
\* compound marker of the list that ends the rest; or a trailing .mdc.
extractDomainFromFilename(filename) ==
  IF EndsWith(filename, ExtMd)
    THEN LET baseName == DropLast(filename, 3)
             hits == {i \in DOMAIN compoundExtensions :
                        EndsWith(baseName, compoundExtensions[i])}
         IN  IF hits = {} THEN baseName
             ELSE LET first == CHOOSE i \in hits : \A j \in hits : i <= j
                  IN  DropLast(baseName, Len(compoundExtensions[first]))
  ELSE IF EndsWith(filename, ExtMdc) THEN DropLast(filename, 4)
  ELSE filename

\* A validity test that asks for a non-empty name only.
isNotEmpty(domain) == Len(domain) > 0

\* isValidDomain: /^[a-zA-Z0-9._-]+$/ and not empty.
ValidDomainChars == LowerLetters \cup UpperLetters \cup Digits \cup {".", "_", "-"}
isValidDomain(domain) ==
  /\ \A i \in 1..Len(domain) : domain[i] \in ValidDomainChars
  /\ Len(domain) > 0

\* isRuleFile: the denylist, then the recognised endings.
skipFiles ==
  {n \o ExtMd : n \in {Readme, Contributing, CodeOfConduct, Security, Support,
                        License}}

\* An isRuleFile that excludes the names of the denylist only.
isRuleFileDenylistOnly(filename) ==
  /\ filename \notin skipFiles
  /\ \/ \E i \in DOMAIN compoundExtensions :
          EndsWith(filename, compoundExtensions[i] \o ExtMd)
     \/ EndsWith(filename, ExtMd)
     \/ EndsWith(filename, ExtMdc)

isRuleFile(filename) ==
  /\ filename \notin skipFiles
  /\ \/ \E i \in DOMAIN compoundExtensions :
          EndsWith(filename, compoundExtensions[i] \o ExtMd)
     \/ EndsWith(filename, ExtMd) /\ ~StartsWith(filename, Readme)
     \/ EndsWith(filename, ExtMdc)

\* Domain names given to extractDomainFromFilename with an extension added.
NameChars == {"a", ".", "-"}
ShortNames ==
  {<<c>> : c \in NameChars} \cup {<<c, d>> : c \in NameChars, d \in NameChars}
CompoundNames ==
  {A \o compoundExtensions[i] : i \in DOMAIN compoundExtensions}
    \cup {A \o ExtMd, A \o ExtMdc, A \o Prompt \o ExtMd,
          Prompt, A \o Chatmode \o Prompt}
ProbeNames == ShortNames \cup CompoundNames \cup {Empty, BadA}

(***************************************************************************)
(* GitHubRepositoryFileReader: the repository it reads.                    *)
(***************************************************************************)
\* One entry of a directory listing.
File(name) == [name |-> name, type |-> "file"]
Dir(name) == [name |-> name, type |-> "dir"]

\* Repositories: the entries of each directory, in the order the API lists
\* them.  A directory that is not named does not exist.
RemoteRules ==
  [d \in {"rules"} |->
     <<File(A \o ExtMd), File(A \o ExtMdc), File(Readme \o ExtMd),
       Dir(<<"d">> \o ExtMd), File(B \o Chatmode \o ExtMd),
       File(BadA \o ExtMd)>>]
RemoteDefault ==
  [d \in {"chatmodes", "prompts"} |->
     IF d = "chatmodes" THEN <<File(A \o Chatmode \o ExtMd)>>
                        ELSE <<File(A \o Prompt \o ExtMd), File(B \o ExtMd)>>]
Remotes == {RemoteRules, RemoteDefault}

\* this.path: a configured directory, or empty.
Paths == {"rules", ""}

\* const directories = this.path ? [this.path] : [...]
directories(p) ==
  IF p # "" THEN <<p>> ELSE <<"chatmodes", "prompts", "instructions">>

DIRECTORY_CACHE_TTL == 10 * 60 * 1000

\* The built-in list of the reader that has one.
FALLBACK_DOMAINS ==
  <<"clean-code", "fastapi", "nextjs-tailwind", "node-express",
    "performance-optimization", "react", "security", "silent-behavior",
    "tailwind", "tasksync", "typescript", "vite">>

(***************************************************************************)
(* GitHubRepositoryFileReader: the text of a rule file.  The regular       *)
(* expressions of the parser are worked out on character sequences whose   *)
(* white space is the space and the line feed.                             *)
(***************************************************************************)
Least(S) == CHOOSE x \in S : \A y \in S : x <= y
Greatest(S) == CHOOSE x \in S : \A y \in S : x >= y

\* String.prototype.toLowerCase
UpperSeq ==
  <<"A", "B", "C", "D", "E", "F", "G", "H", "I", "J", "K", "L", "M", "N", "O",
    "P", "Q", "R", "S", "T", "U", "V", "W", "X", "Y", "Z">>
LowerSeq ==
  <<"a", "b", "c", "d", "e", "f", "g", "h", "i", "j", "k", "l", "m", "n", "o",
    "p", "q", "r", "s", "t", "u", "v", "w", "x", "y", "z">>
LowerChar(c) ==
  IF \E i \in DOMAIN UpperSeq : UpperSeq[i] = c
    THEN LowerSeq[CHOOSE i \in DOMAIN UpperSeq : UpperSeq[i] = c]
    ELSE c
toLowerCase(s) == [i \in DOMAIN s |-> LowerChar(s[i])]

\* The positions where ^ matches under the m flag.
LineStarts(s) == {p \in 1..(Len(s) + 1) : p = 1 \/ s[p - 1] = "\n"}

\* The last position of the line that holds position g, g not a line feed.
EndOfLine(s, g) ==
  Greatest({e \in g..Len(s) : \A j \in g..e : s[j] # "\n"})

\* The position after the longest run of white space that starts at q.
WsRunEnd(s, q) ==
  Least({p \in q..(Len(s) + 1) :
           (p > Len(s) \/ s[p] \notin WhiteSpace)
             /\ \A j \in q..(p - 1) : s[j] \in WhiteSpace})

\* \s*(.+?)(?:\r?\n|$) and \s+(.+?)(?:\r?\n|$) at position q, minWs the
\* least number of white space characters: the greedy run gives back
\* characters until a character other than a line feed starts the group,
\* which then runs to the end of its line.
LazyGroup(s, q, minWs) ==
  LET starts == {g \in (q + minWs)..WsRunEnd(s, q) :
                   g <= Len(s) /\ s[g] # "\n"}
  IN  IF starts = {} THEN [found |-> FALSE, text |-> <<>>]
      ELSE [found |-> TRUE,
            text |-> SubSeq(s, Greatest(starts), EndOfLine(s, Greatest(starts)))]

\* The character sequences of the literals of the parser.
Dashes == <<"-", "-", "-">>
DescriptionKey == <<"d", "e", "s", "c", "r", "i", "p", "t", "i", "o", "n">>
VersionKey == <<"v", "e", "r", "s", "i", "o", "n">>
UpdatedKey == <<"u", "p", "d", "a", "t", "e", "d">>
LastKey == <<"l", "a", "s", "t">>
DomainKey == <<"d", "o", "m", "a", "i", "n">>
Ellipsis == <<".", ".", ".">>
DevelopmentRulesFor == <<"Development rules and guidelines for ">>
Undefined == <<"undefined">>

\* /^---\s*\r?\n([\s\S]*?)\r?\n---\s*\r?\n([\s\S]*)$/: the first white
\* space run is greedy, the frontmatter lazy, the second run greedy.
ClosingEnds(s, k) ==
  {m \in (k + 4)..Len(s) :
     s[m] = "\n" /\ \A j \in (k + 4)..(m - 1) : s[j] \in WhiteSpace}
Closings(s, i) ==
  {k \in (i + 1)..Len(s) :
     /\ s[k] = "\n"
     /\ k + 3 <= Len(s)
     /\ SubSeq(s, k + 1, k + 3) = Dashes
     /\ ClosingEnds(s, k) # {}}
Openings(s) ==
  IF ~StartsWith(s, Dashes) THEN {}
  ELSE {i \in 4..Len(s) :
          /\ s[i] = "\n"
          /\ \A j \in 4..(i - 1) : s[j] \in WhiteSpace
          /\ Closings(s, i) # {}}
frontmatterMatch(content) ==
  IF Openings(content) = {}
    THEN [found |-> FALSE, frontmatter |-> <<>>, mainContent |-> <<>>]
    ELSE LET i == Greatest(Openings(content))
             k == Least(Closings(content, i))
             m == Greatest(ClosingEnds(content, k))
         IN  [found |-> TRUE,
              frontmatter |-> SubSeq(content, i + 1, k - 1),
              mainContent |-> SubSeq(content, m + 1, Len(content))]

\* String.prototype.split(/\r?\n/)
RECURSIVE SplitLines(_)
SplitLines(s) ==
  LET feeds == {i \in DOMAIN s : s[i] = "\n"}
  IN  IF feeds = {} THEN <<s>>
      ELSE <<SubSeq(s, 1, Least(feeds) - 1)>>
             \o SplitLines(SubSeq(s, Least(feeds) + 1, Len(s)))

\* replace(/^["']|["']$/g, '')
Quotes == {"\"", "'"}
StripQuotes(v) ==
  LET v1 == IF v # <<>> /\ Head(v) \in Quotes THEN Tail(v) ELSE v
  IN  IF v1 # <<>> /\ v1[Len(v1)] \in Quotes THEN SubSeq(v1, 1, Len(v1) - 1)
      ELSE v1

\* A parseFrontmatter that also takes the domain from the frontmatter.
RECURSIVE frontmatterSetsDomain(_, _)
frontmatterSetsDomain(lines, ruleContent) ==
  IF lines = <<>> THEN ruleContent
  ELSE LET trimmedLine == Trim(Head(lines))
           colons == {i \in DOMAIN trimmedLine : trimmedLine[i] = ":"}
           colonIndex == Least(colons)
           key == toLowerCase(Trim(SubSeq(trimmedLine, 1, colonIndex - 1)))
           value == StripQuotes(Trim(SubSeq(trimmedLine, colonIndex + 1,
                                            Len(trimmedLine))))
       IN  IF trimmedLine = <<>> \/ Head(trimmedLine) = "#" \/ colons = {}
             THEN frontmatterSetsDomain(Tail(lines), ruleContent)
           ELSE frontmatterSetsDomain(
                  Tail(lines),
                  IF key = DescriptionKey
                    THEN [ruleContent EXCEPT !.description = value]
                  ELSE IF key = DomainKey
                    THEN [ruleContent EXCEPT !.domain = value]
                  ELSE IF key \in {LastKey \o <<"_">> \o UpdatedKey,
                                   LastKey \o UpdatedKey, UpdatedKey}
                    THEN [ruleContent EXCEPT !.lastUpdated = value]
                  ELSE IF key = VersionKey
                    THEN [ruleContent EXCEPT !.version = value]
                  ELSE ruleContent)

\* parseFrontmatter over the lines of the frontmatter: blank lines, comment
\* lines and lines without a colon are skipped; the key is the text before
\* the first colon, the value the text after it.
RECURSIVE parseFrontmatter(_, _)
parseFrontmatter(lines, ruleContent) ==
  IF lines = <<>> THEN ruleContent
  ELSE LET trimmedLine == Trim(Head(lines))
           colons == {i \in DOMAIN trimmedLine : trimmedLine[i] = ":"}
           colonIndex == Least(colons)
           key == toLowerCase(Trim(SubSeq(trimmedLine, 1, colonIndex - 1)))
           value == StripQuotes(Trim(SubSeq(trimmedLine, colonIndex + 1,
                                            Len(trimmedLine))))
       IN  IF trimmedLine = <<>> \/ Head(trimmedLine) = "#" \/ colons = {}
             THEN parseFrontmatter(Tail(lines), ruleContent)
           ELSE parseFrontmatter(
                  Tail(lines),
                  IF key = DescriptionKey
                    THEN [ruleContent EXCEPT !.description = value]
                  ELSE IF key \in {LastKey \o <<"_">> \o UpdatedKey,
                                   LastKey \o UpdatedKey, UpdatedKey}
                    THEN [ruleContent EXCEPT !.lastUpdated = value]
                  ELSE IF key = VersionKey
                    THEN [ruleContent EXCEPT !.version = value]
                  ELSE ruleContent)

\* /(?:^|\r?\n)\s*-\s*<label>:\s*(.+?)(?:\r?\n|$)/i: the dash is the first
\* character of its line that is not white space; the first dash that the
\* label and a group follow is the match.
InlineDashes(s, label) ==
  {d \in DOMAIN s :
     /\ s[d] = "-"
     /\ \E a \in LineStarts(s) : a <= d /\ \A j \in a..(d - 1) : s[j] \in WhiteSpace
     /\ LET q == WsRunEnd(s, d + 1)
        IN  /\ q + Len(label) - 1 <= Len(s)
            /\ toLowerCase(SubSeq(s, q, q + Len(label) - 1)) = label
            /\ LazyGroup(s, q + Len(label), 0).found}
inlineMatch(s, label) ==
  IF InlineDashes(s, label) = {} THEN [found |-> FALSE, text |-> <<>>]
  ELSE LET q == WsRunEnd(s, Least(InlineDashes(s, label)) + 1)
       IN  LazyGroup(s, q + Len(label), 0)

\* parseInlineMetadata
parseInlineMetadata(content, ruleContent) ==
  LET descriptionMatch == inlineMatch(content, DescriptionKey \o <<":">>)
      lastUpdatedMatch ==
        inlineMatch(content, LastKey \o <<" ">> \o UpdatedKey \o <<":">>)
      versionMatch == inlineMatch(content, VersionKey \o <<":">>)
  IN  [ruleContent EXCEPT
         !.description = IF descriptionMatch.found
                           THEN Trim(descriptionMatch.text) ELSE @,
         !.lastUpdated = IF lastUpdatedMatch.found
                           THEN Trim(lastUpdatedMatch.text) ELSE @,
         !.version = IF versionMatch.found THEN Trim(versionMatch.text) ELSE @]

\* /^#\s+(.+?)(?:\r?\n|$)/m: the first line that starts with # and white
\* space after which a group is found.
Headings(s) ==
  {p \in LineStarts(s) :
     /\ p + 1 <= Len(s)
     /\ s[p] = "#"
     /\ s[p + 1] \in WhiteSpace
     /\ LazyGroup(s, p + 1, 1).found}
headingMatch(s) ==
  IF Headings(s) = {} THEN [found |-> FALSE, text |-> <<>>]
  ELSE LazyGroup(s, Least(Headings(s)) + 1, 1)

\* /(?:^|\r?\n)(?!#)([^\r\n]+(?:\r?\n(?!#)[^\r\n]+)*)/m: the first line
\* that is not empty and does not start with #, with the lines of that kind
\* that follow it.
RECURSIVE ParagraphEnd(_, _)
ParagraphEnd(s, p) ==
  LET e == EndOfLine(s, p)
  IN  IF e + 2 <= Len(s) /\ s[e + 2] \notin {"#", "\n"}
        THEN ParagraphEnd(s, e + 2) ELSE e
Paragraphs(s) == {p \in LineStarts(s) : p <= Len(s) /\ s[p] \notin {"#", "\n"}}
paragraphMatch(s) ==
  IF Paragraphs(s) = {} THEN [found |-> FALSE, text |-> <<>>]
  ELSE [found |-> TRUE,
        text |-> SubSeq(s, Least(Paragraphs(s)),
                        ParagraphEnd(s, Least(Paragraphs(s))))]

\* paragraph.split(/[.!?]/)[0]
SentenceEnds == {".", "!", "?"}
FirstSentence(paragraph) ==
  LET ends == {i \in DOMAIN paragraph : paragraph[i] \in SentenceEnds}
  IN  IF ends = {} THEN paragraph ELSE SubSeq(paragraph, 1, Least(ends) - 1)

\* domain.replace(/[-_]/g, ' ')
SpacedDomain(domain) ==
  [i \in DOMAIN domain |-> IF domain[i] \in {"-", "_"} THEN " " ELSE domain[i]]

MinSentenceLength == 10

\* A generateDescriptionFromContent that does not return a blank title.
describeSkippingBlankTitle(content, domain) ==
  LET h == headingMatch(content)
      title == Trim(h.text)
      p == paragraphMatch(content)
      paragraph == Trim(p.text)
      firstSentence == FirstSentence(paragraph)
  IN  IF h.found /\ title # <<>> /\ toLowerCase(title) # toLowerCase(domain)
        THEN title
      ELSE IF p.found /\ Len(firstSentence) > MinSentenceLength
        THEN Trim(firstSentence)
               \o (IF Len(firstSentence) < Len(paragraph) THEN Ellipsis ELSE <<>>)
      ELSE DevelopmentRulesFor \o SpacedDomain(domain)

\* generateDescriptionFromContent: the title of the first heading unless it
\* is the domain, else the first sentence of the first paragraph when it is
\* longer than ten characters, else the templated phrase.
generateDescriptionFromContent(content, domain) ==
  LET h == headingMatch(content)
      title == Trim(h.text)
      p == paragraphMatch(content)
      paragraph == Trim(p.text)
      firstSentence == FirstSentence(paragraph)
  IN  IF h.found /\ toLowerCase(title) # toLowerCase(domain)
        THEN title
      ELSE IF p.found /\ Len(firstSentence) > MinSentenceLength
        THEN Trim(firstSentence)
               \o (IF Len(firstSentence) < Len(paragraph) THEN Ellipsis ELSE <<>>)
      ELSE DevelopmentRulesFor \o SpacedDomain(domain)

\* parseRuleContent on the characters of content.  No operation of it throws
\* on a string, so that its catch clause is never entered.
parseRuleContentText(content, domain) ==
  LET ruleContent == [isNull |-> FALSE, domain |-> domain,
                      content |-> Trim(content), description |-> Undefined,
                      lastUpdated |-> Undefined, version |-> Undefined]
      fm == frontmatterMatch(content)
      parsed == IF fm.found
                  THEN [parseFrontmatter(SplitLines(fm.frontmatter), ruleContent)
                          EXCEPT !.content = Trim(fm.mainContent)]
                  ELSE parseInlineMetadata(content, ruleContent)
  IN  IF parsed.description \in {Undefined, <<>>}
        THEN [parsed EXCEPT
                !.description = generateDescriptionFromContent(content, domain)]
        ELSE parsed

(***************************************************************************)
(* State.                                                                  *)
(***************************************************************************)
VARIABLES
  now,              \* Date.now()
  token,            \* GitHubRepositoryFileReader.hasAuthToken()
  cache,            \* RuleManager.cache: domain -> RuleContent
  cacheTimestamps,  \* RuleManager.cacheTimestamps: domain -> insertion time
  requestPromises,  \* RuleManager.requestPromises: domain -> promise
  req,              \* the calls of the run, by slot
  lastDone          \* history: the domain, result and time of the last
                    \* getRuleContent that completed, while it is within the
                    \* TTL window and no clearCache happened since; ins is
                    \* the time at which its result entered the cache

\* GitHubRepositoryFileReader and the repository behind it.
VARIABLES
  path,                \* this.path
  remote,              \* the directories and files of the repository
  directoryCache,      \* this.directoryCache
  rateLimitResetTime,  \* this.rateLimitResetTime
  rd,                  \* the call that is running through the file reader
  probe                \* a pure function, its argument and its result

readerVars ==
  <<path, remote, directoryCache, rateLimitResetTime, rd, probe>>

vars ==
  <<now, token, cache, cacheTimestamps, requestPromises, req, lastDone,
    path, remote, directoryCache, rateLimitResetTime, rd, probe>>

Reqs == 1..MaxReqs
MaxTime == StartTime + MaxTicks * TickMs

\* A promise of the in-flight table is named by the execution that created
\* it: <<slot, index of the domain in the call>>.
NoPromise == <<0, 0>>

\* One execution of getRuleContentSafe / getRuleContent for one domain.
\*   role: direct (getRuleContent called from outside), create (a
\*         getRuleContentSafe that started getRuleContent), join (a
\*         getRuleContentSafe that found a promise), list (getRuleContent
\*         called by listAvailableDomains)
\*   pc:   exists, read (suspended in ruleExists, readRuleFile), wait
\*         (suspended on a joined promise), done
\* An execution that is in exists or read has sent a transport request; one
\* that is done without having been there (a cache hit) has sent none.
\*   stale: history, kept while it is switched on: clearCache removed the
\*         entry of dom, or all entries, while the execution was suspended
\*   text:  the text the transport has read for the readRuleFile of the
\*         execution and not delivered yet, where the model follows it
NoRes ==
  [dom |-> <<>>, role |-> "none", pc |-> "none", prom |-> NoPromise,
   out |-> Pending, stale |-> FALSE, text |-> ""]

NoRet ==
  [status |-> "none", code |-> "none", shape |-> "none", value |-> Null,
   rules |-> <<>>, total |-> 0, hasFailed |-> FALSE, failed |-> <<>>,
   available |-> <<>>]

NoArgs == [domain |-> Undef, domains |-> NoDomains]

\*   form: the parameter a get_rules request was accepted on
IdleReq ==
  [kind |-> "idle", phase |-> "idle", args |-> NoArgs, form |-> "none",
   doms |-> <<>>,
   items |-> <<>>, results |-> EmptyMap,
   lpc |-> "none", listed |-> <<>>, li |-> 0, cur |-> NoRes, infos |-> <<>>,
   ret |-> NoRet]

\* The history is recorded only when it is switched on: it observes the
\* program and does not act on it.
HistoryOff ==
  [on |-> FALSE, has |-> FALSE, dom |-> <<>>, value |-> Null, at |-> 0, ins |-> 0]
NoHistory == [HistoryOff EXCEPT !.on = TRUE]

Constructed ==
  /\ now = StartTime
  /\ token \in BOOLEAN
  /\ cache = EmptyMap
  /\ cacheTimestamps = EmptyMap
  /\ requestPromises = EmptyMap
  /\ req = [r \in Reqs |-> IdleReq]

\* private directoryCache: {...} | null = null
NoDirectoryCache == [has |-> FALSE, data |-> <<>>, timestamp |-> 0]

\* A call through the file reader.
\*   op:    list_rules, getRuleContent, get_rules
\*   stage: the fetch the call is suspended in: dirs (fetchDirectoryContents
\*          of directory di), exists (ruleExists, extension ei), api
\*          (readRuleFile, candidate di, ei), raw (readRuleFileViaRawUrl,
\*          candidate di, ei); done
\*   rawFrom: the call site of readRuleFileViaRawUrl: cooldown (before the
\*          sweep) or throttle (in candidate adi, aei of the sweep)
\*   dom:   the domain getRuleContent is resolving; arg: the domain asked for
\*   cause: transport once a request of the resolution of arg failed with
\*          something else than a 404 or a throttling status
\*   answered: the directories of the sweep of listRuleFiles that answered
\*          with their entries
\*   throttled: a directory of that sweep was answered with a throttling
\*          status
\*   faithful: every answer the transport gave the call so far is the one
\*          the repository implies
IdleRd ==
  [op |-> "idle", stage |-> "idle", di |-> 0, ei |-> 0, rawFrom |-> "none",
   adi |-> 0, aei |-> 0, dom |-> <<>>, arg |-> <<>>, allFiles |-> <<>>,
   listed |-> <<>>, li |-> 0, infos |-> <<>>, inList |-> FALSE,
   result |-> Null, cause |-> "none", faithful |-> TRUE,
   answered |-> <<>>, throttled |-> FALSE, ret |-> NoRet]

NoProbe == [applied |-> FALSE, name |-> <<>>, ext |-> <<>>, out |-> <<>>]

\* The file reader after construction, with no call running.
ReaderConstructed ==
  /\ directoryCache = NoDirectoryCache
  /\ rateLimitResetTime = 0
  /\ rd = IdleRd

Init ==
  /\ Constructed
  /\ lastDone = HistoryOff
  /\ ReaderConstructed
  /\ path = "rules"
  /\ remote = RemoteRules
  /\ probe = NoProbe

InitTtl ==
  /\ Constructed
  /\ lastDone = NoHistory
  /\ ReaderConstructed
  /\ path = "rules"
  /\ remote = RemoteRules
  /\ probe = NoProbe

(***************************************************************************)
(* RuleManager: cache.                                                     *)
(***************************************************************************)
\* A TTL test that still accepts an entry of age exactly CACHE_TTL.
IsFreshInclusive(age) == age <= CACHE_TTL

\* The TTL test of getCachedContent.
IsFresh(age) == age < CACHE_TTL

\* A cache that never answers.
neverCached(c, t, D) == [value |-> Null, cache |-> c, ts |-> t]

\* A lazy eviction that deletes the content and leaves its timestamp.
evictContentOnly(c, t, D) ==
  LET cached == D \in DOMAIN c
      timestamp == IF D \in DOMAIN t THEN t[D] ELSE 0
  IN  IF cached /\ timestamp # 0 /\ IsFresh(now - timestamp)
        THEN [value |-> c[D], cache |-> c, ts |-> t]
        ELSE IF cached
          THEN [value |-> Null, cache |-> MapDelete(c, D), ts |-> t]
          ELSE [value |-> Null, cache |-> c, ts |-> t]

\* getCachedContent on the maps c (cache) and t (cacheTimestamps): the value
\* returned, and the maps it leaves.  An entry that is present but not
\* valid is deleted from both maps.
getCachedContent(c, t, D) ==
  LET cached == D \in DOMAIN c
      timestamp == IF D \in DOMAIN t THEN t[D] ELSE 0
  IN  IF cached /\ timestamp # 0 /\ IsFresh(now - timestamp)
        THEN [value |-> c[D], cache |-> c, ts |-> t]
        ELSE IF cached
          THEN [value |-> Null, cache |-> MapDelete(c, D), ts |-> MapDelete(t, D)]
          ELSE [value |-> Null, cache |-> c, ts |-> t]

\* A getRuleContent without its catch clause: the exception goes on.
Rethrow(o) == o

\* The catch clause of getRuleContent: every exception becomes null.
getRuleContentCatch(o) == IF o.status = "rejected" THEN Fulfilled(Null) ELSE o

\* History: the last completed getRuleContent of a domain.
Completed(last, D, o, ins) ==
  IF last.on
    THEN [on |-> TRUE, has |-> TRUE, dom |-> D, value |-> o.value, at |-> now,
          ins |-> ins]
    ELSE last

\* getRuleContent up to its first await, on the maps c, t and the history
\* last: the cache is consulted first; on a miss the call suspends in
\* ruleExists (with a token) or in readRuleFile (without).
getRuleContentStart(c, t, last, D, role) ==
  LET g == getCachedContent(c, t, D)
      base == [NoRes EXCEPT !.dom = D, !.role = role]
  IN  IF ~g.value.isNull
        THEN [res |-> [base EXCEPT !.pc = "done", !.out = Fulfilled(g.value)],
              cache |-> g.cache, ts |-> g.ts,
              last |-> Completed(last, D, Fulfilled(g.value), t[D])]
        ELSE [res |-> [base EXCEPT !.pc = IF token THEN "exists" ELSE "read"],
              cache |-> g.cache, ts |-> g.ts, last |-> last]

(***************************************************************************)
(* RuleManager: getRuleContentSafe and the in-flight table.                *)
(***************************************************************************)
\* A getRuleContentSafe that never finds a promise in the table.
NoExistingPromise(proms, D) == FALSE

\* const existingPromise = this.requestPromises.get(domain)
HasExistingPromise(proms, D) == D \in DOMAIN proms

\* A getRuleContentSafe that returns the promise p, whose creator is target.
\* The execution remembers the promise while it waits for it.
JoinRes(D, p, target) ==
  IF target.pc = "done"
    THEN [NoRes EXCEPT !.dom = D, !.role = "join", !.pc = "done",
                       !.out = target.out]
    ELSE [NoRes EXCEPT !.dom = D, !.role = "join", !.pc = "wait", !.prom = p]

\* One getRuleContentSafe(D) of call r, up to its await.  acc carries the
\* executions of the call so far and the maps as the earlier ones left them.
SafeStart(r, acc, D) ==
  LET k == Len(acc.items) + 1
  IN  IF HasExistingPromise(acc.proms, D)
        THEN LET p == acc.proms[D]
                 target == IF p[1] = r THEN acc.items[p[2]]
                                       ELSE req[p[1]].items[p[2]]
             IN  [acc EXCEPT !.items = Append(@, JoinRes(D, p, target))]
        ELSE LET s == getRuleContentStart(acc.cache, acc.ts, acc.last, D,
                                          "create")
             IN  [items |-> Append(acc.items, s.res), cache |-> s.cache,
                  ts |-> s.ts, last |-> s.last,
                  proms |-> MapSet(acc.proms, D, <<r, k>>)]

\* domains.map(domain => getRuleContentSafe(domain)): the calls are started
\* one after the other with no suspension in between.
RECURSIVE SafeStartAll(_, _, _)
SafeStartAll(r, acc, ds) ==
  IF ds = <<>> THEN acc ELSE SafeStartAll(r, SafeStart(r, acc, Head(ds)), Tail(ds))

\* Creators that leave their entry in the table when the promise is settled
\* at once.
ReleaseNone(r, acc) == acc.proms

\* The finally clause of the creators whose promise is already settled (a
\* cache hit): their entry leaves the table before any other task runs.
ReleaseSettled(r, acc) ==
  LET keep == {D \in DOMAIN acc.proms :
                 ~(acc.proms[D][1] = r /\ acc.items[acc.proms[D][2]].pc = "done")}
  IN  [D \in keep |-> acc.proms[D]]

StartAcc ==
  [items |-> <<>>, cache |-> cache, ts |-> cacheTimestamps,
   proms |-> requestPromises, last |-> lastDone]

\* A callback that records a domain only when it has content.
MultiRecordContentOnly(results, D, o) ==
  IF o.status = "fulfilled" /\ ~o.value.isNull THEN MapSet(results, D, o.value)
                                               ELSE results

\* getMultipleRuleContents: what the callback of one domain records once its
\* getRuleContentSafe settled with o.
MultiRecord(results, D, o) ==
  MapSet(results, D, IF o.status = "fulfilled" THEN o.value ELSE Null)

\* The callbacks of the executions ks of items, in request order.
RECURSIVE MultiRecordAll(_, _, _, _)
MultiRecordAll(results, items, ks, k) ==
  IF k > Len(items) THEN results
  ELSE MultiRecordAll(
         IF k \in ks THEN MultiRecord(results, items[k].dom, items[k].out)
                     ELSE results,
         items, ks, k + 1)

DoneItems(items) == {k \in 1..Len(items) : items[k].pc = "done"}

(***************************************************************************)
(* index.ts: processRuleResults and the get_rules response.                *)
(***************************************************************************)
\* The callback of one domain: it throws when getRuleContentSafe gave null.
RuleResult(o) ==
  IF o.status = "fulfilled" /\ ~o.value.isNull
    THEN [status |-> "fulfilled",
          value |-> [domain |-> o.value.domain, content |-> o.value.content]]
    ELSE [status |-> "rejected", value |-> [domain |-> <<>>, content |-> ""]]

RECURSIVE successfulResults(_)
successfulResults(results) ==
  IF results = <<>> THEN <<>>
  ELSE (IF Head(results).status = "fulfilled" THEN <<Head(results).value>> ELSE <<>>)
       \o successfulResults(Tail(results))

\* A result processing that reports no failed domain.
noFailedDomains(results, domains) == <<>>

\* results.map((r, i) => rejected ? sanitizedDomains[i] : null).filter(Boolean)
RECURSIVE failedDomains(_, _)
failedDomains(results, domains) ==
  IF results = <<>> THEN <<>>
  ELSE (IF Head(results).status = "rejected" /\ Len(Head(domains)) > 0
          THEN <<Head(domains)>> ELSE <<>>)
       \o failedDomains(Tail(results), Tail(domains))

RuleResults(items) == [k \in 1..Len(items) |-> RuleResult(items[k].out)]

\* responseData of a get_rules call whose processRuleResults returned.
responseData(domainsToProcess, successful, failed) ==
  IF Len(domainsToProcess) = 1
    THEN [NoRet EXCEPT !.status = "ok", !.shape = "single",
            !.rules = <<[title |-> successful[1].domain,
                         content |-> successful[1].content]>>]
    ELSE [NoRet EXCEPT !.status = "ok", !.shape = "multi",
            !.rules = [i \in 1..Len(successful) |->
                         [title |-> successful[i].domain,
                          content |-> successful[i].content]],
            !.total = Len(successful),
            !.hasFailed = Len(failed) > 0,
            !.failed = IF Len(failed) > 0 THEN failed ELSE <<>>]

McpError(code) == [NoRet EXCEPT !.status = "error", !.code = code]

(***************************************************************************)
(* RuleManager.listAvailableDomains: the DomainInfo of one domain.         *)
(***************************************************************************)
\* The descriptions listAvailableDomains writes itself (the domain name they
\* contain is left out).
RulesFor == "Rules for"
MetadataUnavailable == "Rules for (metadata unavailable)"
Templated == "Development rules and guidelines for"

\* A listing that gives an unresolved domain no description.
DomainInfoNoPlaceholder(D, o) ==
  IF o.status = "fulfilled" /\ ~o.value.isNull
    THEN [domain |-> o.value.domain, description |-> o.value.description]
    ELSE [domain |-> D, description |-> ""]

DomainInfoOf(D, o) ==
  IF o.status = "fulfilled" /\ ~o.value.isNull
    THEN [domain |-> o.value.domain,
          description |-> IF o.value.description # "" THEN o.value.description
                                                      ELSE RulesFor]
    ELSE [domain |-> D, description |-> MetadataUnavailable]

TemplatedInfo(D) == [domain |-> D, description |-> Templated]

(***************************************************************************)
(* Continuations.  When an awaited promise settles, the code after the     *)
(* await runs as microtasks, before any other I/O completion or request is *)
(* handled: it is part of the step that settles the promise.               *)
(***************************************************************************)
AllDone(items) == \A k \in 1..Len(items) : items[k].pc = "done"

\* getRuleContent / getRuleContentSafe return to the outside caller.
GetRuleContentReturn(q) ==
  LET o == q.items[1].out
  IN  [q EXCEPT !.phase = "done",
                !.ret = IF o.status = "fulfilled"
                          THEN [NoRet EXCEPT !.status = "ok", !.shape = "content",
                                             !.value = o.value]
                          ELSE [NoRet EXCEPT !.status = "error", !.code = "thrown"]]

\* getMultipleRuleContents returns its map after Promise.allSettled.
GetMultipleReturn(q) ==
  [q EXCEPT !.phase = "done",
            !.ret = [NoRet EXCEPT !.status = "ok", !.shape = "map"]]

\* A result processing that fails the whole call as soon as one domain
\* failed.
ProcessAllOrNothing(q) ==
  LET results == RuleResults(q.items)
      successful == successfulResults(results)
      failed == failedDomains(results, q.doms)
  IN  IF Len(failed) > 0
        THEN [q EXCEPT !.phase = "list", !.lpc = "listing"]
        ELSE [q EXCEPT !.phase = "done",
                       !.ret = responseData(q.doms, successful, failed)]

\* processRuleResults after Promise.allSettled: with no successful result it
\* calls listAvailableDomains (to build the error) and suspends in
\* listRuleFiles; otherwise the handler answers with responseData.
ProcessRuleResults(q) ==
  LET results == RuleResults(q.items)
      successful == successfulResults(results)
      failed == failedDomains(results, q.doms)
  IN  IF Len(successful) = 0
        THEN [q EXCEPT !.phase = "list", !.lpc = "listing"]
        ELSE [q EXCEPT !.phase = "done",
                       !.ret = responseData(q.doms, successful, failed)]

\* What a call does once all its executions are done.
AfterAllSettled(q) ==
  IF q.phase = "items" /\ AllDone(q.items)
    THEN CASE q.kind = "getMultipleRuleContents" -> GetMultipleReturn(q)
           [] q.kind = "get_rules" -> ProcessRuleResults(q)
           [] OTHER -> GetRuleContentReturn(q)
    ELSE q

\* listAvailableDomains returns: list_rules answers with the list, a failed
\* get_rules throws its error naming the available domains.
ListReturn(q) ==
  LET available == [i \in 1..Len(q.infos) |-> q.infos[i].domain]
  IN  [q EXCEPT !.phase = "done", !.lpc = "returned",
                !.ret = IF q.kind = "list_rules"
                          THEN [NoRet EXCEPT !.status = "ok", !.shape = "list",
                                             !.total = Len(q.infos)]
                          ELSE [McpError("InvalidParams") EXCEPT
                                  !.available = available,
                                  !.failed = failedDomains(RuleResults(q.items),
                                                           q.doms)]]

\* The loop of listAvailableDomains from index q.li, on the maps of st, up to
\* its next suspension: getRuleContent(domain) is called for each listed
\* domain in turn; a cache hit is pushed at once, a miss suspends the loop.
RECURSIVE ListLoop(_, _)
ListLoop(q, st) ==
  IF q.li > Len(q.listed)
    THEN [q |-> ListReturn(q), cache |-> st.cache, ts |-> st.ts, last |-> st.last]
    ELSE LET D == q.listed[q.li]
             s == getRuleContentStart(st.cache, st.ts, st.last, D, "list")
         IN  IF s.res.pc = "done"
               THEN ListLoop([q EXCEPT !.infos = Append(@, DomainInfoOf(D, s.res.out)),
                                       !.li = @ + 1],
                             [cache |-> s.cache, ts |-> s.ts, last |-> s.last])
               ELSE [q |-> [q EXCEPT !.cur = s.res, !.lpc = "wait"],
                     cache |-> s.cache, ts |-> s.ts, last |-> s.last]

(***************************************************************************)
(* Actions.                                                                *)
(***************************************************************************)
\* The answer of a call is taken by its caller before anything else runs.
Quiet == \A r \in Reqs : req[r].phase # "done"

\* A new call takes the lowest free slot.
CanStart(r) ==
  /\ Quiet
  /\ req[r].kind = "idle"
  /\ \A r2 \in Reqs : r2 < r => req[r2].kind # "idle"

\* Time passes.
Tick ==
  /\ Quiet
  /\ now + TickMs <= MaxTime
  /\ now' = now + TickMs
  /\ lastDone' = IF lastDone.has /\ (now + TickMs) - lastDone.at >= CACHE_TTL
                   THEN NoHistory ELSE lastDone
  /\ UNCHANGED <<token, cache, cacheTimestamps, requestPromises, req>>
  /\ UNCHANGED readerVars

\* History: the executions of getRuleContent that are suspended in the file
\* reader while clearCache(domain) runs.
ClearedInFlight(x, domain) ==
  IF /\ lastDone.on
     /\ x.role \in {"direct", "create", "list"}
     /\ x.pc \in {"exists", "read"}
     /\ (Truthy(domain) => x.dom = domain.s)
    THEN [x EXCEPT !.stale = TRUE]
    ELSE x

MarkCleared(domain) ==
  [r \in Reqs |->
     [req[r] EXCEPT
        !.items = [k \in 1..Len(req[r].items) |->
                     ClearedInFlight(req[r].items[k], domain)],
        !.cur = ClearedInFlight(req[r].cur, domain)]]

\* A clearCache that empties both maps whatever its argument.
clearCacheAll(domain) ==
  /\ Quiet
  /\ cache' = EmptyMap
  /\ cacheTimestamps' = EmptyMap
  /\ lastDone' = IF lastDone.on THEN NoHistory ELSE lastDone
  /\ req' = MarkCleared(domain)
  /\ UNCHANGED <<now, token, requestPromises>>
  /\ UNCHANGED readerVars

\* clearCache(domain?)
clearCache(domain) ==
  /\ Quiet
  /\ IF Truthy(domain)
       THEN /\ cache' = MapDelete(cache, domain.s)
            /\ cacheTimestamps' = MapDelete(cacheTimestamps, domain.s)
       ELSE /\ cache' = EmptyMap
            /\ cacheTimestamps' = EmptyMap
  /\ lastDone' = IF lastDone.on THEN NoHistory ELSE lastDone
  /\ req' = MarkCleared(domain)
  /\ UNCHANGED <<now, token, requestPromises>>
  /\ UNCHANGED readerVars

\* A call of getRuleContent(D) from outside the manager.
CallGetRuleContent(r, D) ==
  /\ CanStart(r)
  /\ LET s == getRuleContentStart(cache, cacheTimestamps, lastDone, D, "direct")
     IN  /\ cache' = s.cache
         /\ cacheTimestamps' = s.ts
         /\ lastDone' = s.last
         /\ req' = [req EXCEPT ![r] = AfterAllSettled(
                      [IdleReq EXCEPT !.kind = "getRuleContent",
                                      !.phase = "items", !.doms = <<D>>,
                                      !.items = <<s.res>>])]
  /\ UNCHANGED <<now, token, requestPromises>>
  /\ UNCHANGED readerVars

\* The calls that start getRuleContentSafe for each domain of ds.
StartSafeCalls(r, kind, form, ds) ==
  LET acc == SafeStartAll(r, StartAcc, ds)
  IN  /\ cache' = acc.cache
      /\ cacheTimestamps' = acc.ts
      /\ lastDone' = acc.last
      /\ requestPromises' = ReleaseSettled(r, acc)
      /\ req' = [req EXCEPT ![r] = AfterAllSettled(
                   [IdleReq EXCEPT
                      !.kind = kind, !.phase = "items", !.form = form,
                      !.doms = ds, !.items = acc.items,
                      !.results =
                        IF kind = "getMultipleRuleContents"
                          THEN MultiRecordAll(EmptyMap, acc.items,
                                              DoneItems(acc.items), 1)
                          ELSE EmptyMap])]
      /\ UNCHANGED <<now, token>>
      /\ UNCHANGED readerVars

CallGetRuleContentSafe(r, D) ==
  /\ CanStart(r)
  /\ StartSafeCalls(r, "getRuleContentSafe", "none", <<D>>)

CallGetMultipleRuleContents(r, ds) ==
  /\ CanStart(r)
  /\ StartSafeCalls(r, "getMultipleRuleContents", "none", ds)

\* The parameter validateDomainInput takes the domains from: domain when
\* hasOnlyDomain, domains otherwise.
RequestForm(args) ==
  IF Truthy(args.domain) /\ ~Truthy(args.domains) THEN "domain" ELSE "domains"

\* The get_rules handler up to its first await: validation, sanitizing, and
\* the start of processRuleResults.  A request that fails validation is
\* answered with the error at once.
CallGetRules(r, args) ==
  /\ CanStart(r)
  /\ LET v == validateDomainInput(args.domain, args.domains)
         s == IF v.ok THEN sanitizeDomains(v.list) ELSE v
     IN  IF s.ok
           THEN StartSafeCalls(r, "get_rules", RequestForm(args), s.list)
           ELSE /\ req' = [req EXCEPT ![r] =
                             [IdleReq EXCEPT !.kind = "get_rules",
                                             !.phase = "done", !.args = args,
                                             !.ret = McpError(s.code)]]
                /\ UNCHANGED <<now, token, cache, cacheTimestamps,
                               requestPromises, lastDone>>
                /\ UNCHANGED readerVars

\* The list_rules handler (listAvailableDomains) up to its await of
\* listRuleFiles.
CallListRules(r) ==
  /\ CanStart(r)
  /\ req' = [req EXCEPT ![r] =
               [IdleReq EXCEPT !.kind = "list_rules", !.phase = "list",
                               !.lpc = "listing"]]
  /\ UNCHANGED <<now, token, cache, cacheTimestamps, requestPromises, lastDone>>
  /\ UNCHANGED readerVars

\* The execution <<r, k>>: item k of call r, or (k = 0) the execution of the
\* listing loop of call r.
ResAt(r, k) == IF k = 0 THEN req[r].cur ELSE req[r].items[k]
Slots(r) == 0..Len(req[r].items)

\* A settling that reaches the execution itself and leaves the
\* getRuleContentSafe executions that joined its promise waiting.
SettledReqCreatorOnly(r2, r, k, o) ==
  LET q == req[r2]
      newly == {j \in 1..Len(q.items) : r2 = r /\ j = k}
      items2 == [j \in 1..Len(q.items) |->
                   IF j \in newly
                     THEN [q.items[j] EXCEPT !.pc = "done", !.out = o,
                                             !.prom = NoPromise]
                     ELSE q.items[j]]
  IN  AfterAllSettled(
        [q EXCEPT !.items = items2,
                  !.results = IF q.kind = "getMultipleRuleContents"
                                THEN MultiRecordAll(q.results, items2, newly, 1)
                                ELSE q.results])

\* Call r2 once the promise of execution <<r, k>>, k > 0, has settled with o:
\* the execution itself and every getRuleContentSafe that joined its promise
\* receive o, the per-domain callbacks of getMultipleRuleContents record it,
\* and a call whose executions are all done goes on.
SettledReq(r2, r, k, o) ==
  LET q == req[r2]
      newly == {j \in 1..Len(q.items) :
                  \/ r2 = r /\ j = k
                  \/ /\ ResAt(r, k).role = "create"
                     /\ q.items[j].role = "join"
                     /\ q.items[j].pc = "wait"
                     /\ q.items[j].prom = <<r, k>>}
      items2 == [j \in 1..Len(q.items) |->
                   IF j \in newly
                     THEN [q.items[j] EXCEPT !.pc = "done", !.out = o,
                                             !.prom = NoPromise]
                     ELSE q.items[j]]
  IN  AfterAllSettled(
        [q EXCEPT !.items = items2,
                  !.results = IF q.kind = "getMultipleRuleContents"
                                THEN MultiRecordAll(q.results, items2, newly, 1)
                                ELSE q.results])

\* The getRuleContent of execution <<r, k>> completes with o, having left
\* the maps c and t.  For k > 0 the creator of a promise runs its finally
\* clause; for k = 0 the listing loop pushes the DomainInfo and goes on.
Settle(r, k, o, c, t) ==
  LET D == ResAt(r, k).dom
      last == Completed(lastDone, D, o, now)
  IN  IF k = 0
        THEN LET run == ListLoop([req[r] EXCEPT
                                    !.cur = NoRes,
                                    !.infos = Append(@, DomainInfoOf(D, o)),
                                    !.li = @ + 1],
                                 [cache |-> c, ts |-> t, last |-> last])
             IN  /\ req' = [req EXCEPT ![r] = run.q]
                 /\ cache' = run.cache
                 /\ cacheTimestamps' = run.ts
                 /\ lastDone' = run.last
                 /\ UNCHANGED requestPromises
        ELSE /\ req' = [r2 \in Reqs |-> SettledReq(r2, r, k, o)]
             /\ cache' = c
             /\ cacheTimestamps' = t
             /\ lastDone' = last
             /\ requestPromises' = IF ResAt(r, k).role = "create"
                                     THEN MapDelete(requestPromises, D)
                                     ELSE requestPromises

\* ruleExists returns e.
RuleExistsReturn(r, k, e) ==
  /\ Quiet
  /\ k \in Slots(r)
  /\ ResAt(r, k).pc = "exists"
  /\ IF e
       THEN /\ req' = IF k = 0
                        THEN [req EXCEPT ![r].cur.pc = "read"]
                        ELSE [req EXCEPT ![r].items[k].pc = "read"]
            /\ UNCHANGED <<cache, cacheTimestamps, requestPromises, lastDone>>
       ELSE Settle(r, k, Fulfilled(Null), cache, cacheTimestamps)
  /\ UNCHANGED <<now, token>>
  /\ UNCHANGED readerVars

\* A getRuleContent that stores null in the cache when readRuleFile throws.
ReadRuleFileReturnCachingNull(r, k, f) ==
  /\ Quiet
  /\ k \in Slots(r)
  /\ ResAt(r, k).pc = "read"
  /\ f \in ReadOutcomes(ResAt(r, k).dom)
  /\ LET D == ResAt(r, k).dom
         ruleContent == parseRuleContent(f.text, D)
     IN  Settle(r, k,
                getRuleContentCatch(IF f.ok THEN Fulfilled(ruleContent) ELSE Rejected),
                MapSet(cache, D, IF f.ok THEN ruleContent ELSE Null),
                MapSet(cacheTimestamps, D, now))
  /\ UNCHANGED <<now, token>>
  /\ UNCHANGED readerVars

\* readRuleFile returns a text or throws.
ReadRuleFileReturn(r, k, f) ==
  /\ Quiet
  /\ k \in Slots(r)
  /\ ResAt(r, k).pc = "read"
  /\ f \in ReadOutcomes(ResAt(r, k).dom)
  /\ LET D == ResAt(r, k).dom
         ruleContent == parseRuleContent(f.text, D)
     IN  Settle(r, k,
                getRuleContentCatch(IF f.ok THEN Fulfilled(ruleContent) ELSE Rejected),
                IF f.ok THEN MapSet(cache, D, ruleContent) ELSE cache,
                IF f.ok THEN MapSet(cacheTimestamps, D, now) ELSE cacheTimestamps)
  /\ UNCHANGED <<now, token>>
  /\ UNCHANGED readerVars

\* A listAvailableDomains without its shortcut.
AlwaysResolves(L) == FALSE

\* if (!hasToken && domains.length > 5): the listed domains are not resolved.
SkipsResolution(L) == ~token /\ Len(L) > NoTokenListLimit

\* listRuleFiles returns the domains l.list, or throws: the catch clause of
\* listAvailableDomains then returns the empty list.  The long listing is
\* given only where the loop does not resolve its domains one by one.
ListRuleFilesReturn(r, l) ==
  /\ Quiet
  /\ req[r].lpc = "listing"
  /\ l.list = LongListing => ~token
  /\ LET L == IF l.ok THEN l.list ELSE <<>>
         run == IF l.ok /\ SkipsResolution(L)
                  THEN [q |-> ListReturn(
                                [req[r] EXCEPT
                                   !.listed = L,
                                   !.infos = [i \in 1..Len(L) |-> TemplatedInfo(L[i])]]),
                        cache |-> cache, ts |-> cacheTimestamps, last |-> lastDone]
                  ELSE ListLoop([req[r] EXCEPT !.listed = L, !.li = 1],
                                [cache |-> cache, ts |-> cacheTimestamps,
                                 last |-> lastDone])
     IN  /\ req' = [req EXCEPT ![r] = run.q]
         /\ cache' = run.cache
         /\ cacheTimestamps' = run.ts
         /\ lastDone' = run.last
  /\ UNCHANGED <<now, token, requestPromises>>
  /\ UNCHANGED readerVars

\* The caller takes the answer of call r; the locals of the call are gone
\* and its slot is free again.
TakeAnswer(r) ==
  /\ req[r].phase = "done"
  /\ req' = [req EXCEPT ![r] = IdleReq]
  /\ UNCHANGED <<now, token, cache, cacheTimestamps, requestPromises, lastDone>>
  /\ UNCHANGED readerVars

ClearArgs == {Undef, Str(A), Str(B), Str(Empty)}
\* The positions of a domain in the domain list of a call.
ItemIndexes ==
  {1} \cup UNION ({DOMAIN ds : ds \in MultiLists}
                   \cup {DOMAIN a.domains.xs : a \in GetRulesArgs})
AllReadOutcomes == UNION {ReadOutcomes(D) : D \in CallDomains}
ListOutcomes ==
  {[ok |-> TRUE, list |-> L] : L \in Listings} \cup {[ok |-> FALSE, list |-> <<>>]}

Next ==
  \/ \E d \in ClearArgs : clearCache(d)
  \/ \E r \in Reqs, D \in CallDomains : CallGetRuleContent(r, D)
  \/ \E r \in Reqs, D \in SafeDomains : CallGetRuleContentSafe(r, D)
  \/ \E r \in Reqs, ds \in MultiLists : CallGetMultipleRuleContents(r, ds)
  \/ \E r \in Reqs, args \in GetRulesArgs : CallGetRules(r, args)
  \/ \E r \in Reqs : CallListRules(r)
  \/ \E r \in Reqs, k \in {0} \cup ItemIndexes, e \in BOOLEAN : RuleExistsReturn(r, k, e)
  \/ \E r \in Reqs, k \in {0} \cup ItemIndexes, f \in AllReadOutcomes : ReadRuleFileReturn(r, k, f)
  \/ \E r \in Reqs, l \in ListOutcomes : ListRuleFilesReturn(r, l)
  \/ \E r \in Reqs : TakeAnswer(r)

\* All entry points, at one instant.
Spec == Init /\ [][Next]_vars

\* The manager's single-domain entry points as time passes.
NextTtl ==
  \/ Tick
  \/ \E d \in ClearArgs : clearCache(d)
  \/ \E r \in Reqs, D \in SafeDomains : CallGetRuleContent(r, D)
  \/ \E r \in Reqs, D \in SafeDomains : CallGetRuleContentSafe(r, D)
  \/ \E r \in Reqs, k \in {0} \cup ItemIndexes, e \in BOOLEAN : RuleExistsReturn(r, k, e)
  \/ \E r \in Reqs, k \in {0} \cup ItemIndexes, f \in AllReadOutcomes : ReadRuleFileReturn(r, k, f)
  \/ \E r \in Reqs : TakeAnswer(r)

SpecTtl == InitTtl /\ [][NextTtl]_vars

(***************************************************************************)
(* File names: extractDomainFromFilename applied to a name with one of the *)
(* supported extensions.                                                   *)
(***************************************************************************)
SupportedExtensions == {extensions[i] : i \in DOMAIN extensions}

Probes ==
  {[applied |-> FALSE, name |-> n, ext |-> e, out |-> <<>>] :
     n \in ProbeNames, e \in SupportedExtensions}

managerVars == <<cache, cacheTimestamps, requestPromises, req, lastDone>>

InitNames ==
  /\ Constructed
  /\ lastDone = HistoryOff
  /\ ReaderConstructed
  /\ path = "rules"
  /\ remote = RemoteRules
  /\ probe \in Probes

ExtractDomain ==
  /\ ~probe.applied
  /\ probe' = [probe EXCEPT
                 !.applied = TRUE,
                 !.out = extractDomainFromFilename(probe.name \o probe.ext)]
  /\ UNCHANGED <<now, token, path, remote, directoryCache, rateLimitResetTime,
                 rd>>
  /\ UNCHANGED managerVars

NextNames == ExtractDomain

SpecNames == InitNames /\ [][NextNames]_vars

(***************************************************************************)
(* parseRuleContent applied to the texts of at most MaxLines lines.        *)
(***************************************************************************)
MaxLines == 4

RuleLines ==
  {Dashes,
   DescriptionKey \o <<":", " ", "d">>,
   DomainKey \o <<":", " ", "b">>,
   <<"#", " ", "a">>,
   <<"#", " ", " ">>,
   <<"-", " ", "D">> \o Tail(DescriptionKey) \o <<":", " ", "d">>,
   <<>>,
   <<"a", "b", "c", "d", "e", "f", "g", "h", "i", "j", "k", "l", ".", " ", "m">>,
   <<"~", "^", "@">>}

\* Array.prototype.join with the line feed.
RECURSIVE JoinLines(_)
JoinLines(lines) ==
  IF lines = <<>> THEN <<>>
  ELSE IF Len(lines) = 1 THEN lines[1]
  ELSE lines[1] \o <<"\n">> \o JoinLines(Tail(lines))

RuleTexts ==
  {JoinLines(ls) : ls \in UNION {[1..n -> RuleLines] : n \in 0..MaxLines}}

ParseDomains == {A, <<"a", "-", "b">>}

ParseProbes ==
  {[applied |-> FALSE, text |-> x, domain |-> d, out |-> Null] :
     x \in RuleTexts, d \in ParseDomains}

InitParse ==
  /\ Constructed
  /\ lastDone = HistoryOff
  /\ ReaderConstructed
  /\ path = "rules"
  /\ remote = RemoteRules
  /\ probe \in ParseProbes

ParseRule ==
  /\ ~probe.applied
  /\ probe' = [probe EXCEPT
                 !.applied = TRUE,
                 !.out = parseRuleContentText(probe.text, probe.domain)]
  /\ UNCHANGED <<now, token, path, remote, directoryCache, rateLimitResetTime,
                 rd>>
  /\ UNCHANGED managerVars

NextParse == ParseRule

SpecParse == InitParse /\ [][NextParse]_vars

(***************************************************************************)
(* GitHubRepositoryFileReader and the calls that run through it, one at a  *)
(* time.  A step is the answer of the transport to one request, with the   *)
(* code that runs until the next request is sent.                          *)
(***************************************************************************)
\* A listing that keeps every file of a domain.
RECURSIVE ExtractAll(_)
ExtractAll(data) ==
  IF data = <<>> THEN <<>>
  ELSE LET item == Head(data)
           domain == extractDomainFromFilename(item.name)
       IN  (IF item.type = "file" /\ isRuleFile(item.name) /\ isValidDomain(domain)
              THEN <<domain>> ELSE <<>>) \o ExtractAll(Tail(data))

\* The loop of extractDomainsFromDirectoryData over data, with the domains
\* seen and the list built so far.
RECURSIVE ExtractLoop(_, _, _)
ExtractLoop(data, seenDomains, validDomains) ==
  IF data = <<>> THEN validDomains
  ELSE LET item == Head(data)
           domain == extractDomainFromFilename(item.name)
       IN  IF item.type # "file" \/ ~isRuleFile(item.name)
             THEN ExtractLoop(Tail(data), seenDomains, validDomains)
           ELSE IF domain \in seenDomains \/ ~isValidDomain(domain)
             THEN ExtractLoop(Tail(data), seenDomains, validDomains)
           ELSE ExtractLoop(Tail(data), seenDomains \cup {domain},
                            Append(validDomains, domain))

extractDomainsFromDirectoryData(data) == ExtractLoop(data, {}, <<>>)

\* The types of the entries called name in directory dir of the repository.
EntryTypes(dir, name) ==
  IF dir \in DOMAIN remote
    THEN {remote[dir][i].type : i \in {j \in DOMAIN remote[dir] :
                                         remote[dir][j].name = name}}
    ELSE {}

\* The text of the rule file name of directory dir.
FileText(dir, name) ==
  IF EndsWith(name, ExtMdc) \/ dir = "prompts" THEN "v2" ELSE "v1"

\* Answers of the transport to one request.  faithful: the status the
\* repository implies (200 or 404); s500: another error status; s403: a
\* throttling status; neterr: fetch rejects.  reset is the x-ratelimit-reset
\* header in seconds, 0 when the header is absent.
DirTickMs == DIRECTORY_CACHE_TTL \div 2
MaxTimeReader == StartTime + MaxTicks * DirTickMs
MidResetSeconds == ((StartTime + DirTickMs) \div 1000) + 1
FarResetSeconds == (MaxTimeReader \div 1000) + 1
ResetHeaders == {0, MidResetSeconds, FarResetSeconds}
ApiResponses ==
  {[kind |-> k, reset |-> h] : k \in {"faithful", "s500", "s403"}, h \in ResetHeaders}
    \cup {[kind |-> "neterr", reset |-> 0]}
PlainResponses ==
  {[kind |-> k, reset |-> 0] : k \in {"faithful", "s500", "s403", "neterr"}}

\* The state a call works on.
Cur ==
  [rd |-> rd, cache |-> cache, ts |-> cacheTimestamps, dc |-> directoryCache,
   rl |-> rateLimitResetTime]

\* if (rateLimitReset) this.rateLimitResetTime = parseInt(rateLimitReset) * 1000
\* and the history of the transport.
Received(S, resp) ==
  [S EXCEPT !.rl = IF resp.reset # 0 THEN resp.reset * 1000 ELSE @,
            !.rd.faithful = @ /\ resp.kind = "faithful",
            !.rd.cause = IF /\ resp.kind \in {"s500", "neterr"}
                            /\ S.rd.stage \in {"exists", "api", "raw"}
                            /\ ~S.rd.inList
                           THEN "transport" ELSE @,
            !.rd.throttled = @ \/ (resp.kind = "s403" /\ S.rd.stage = "dirs")]

\* listAvailableDomains returns: list_rules answers with the list, a failed
\* get_rules throws its error with the available domains.
FinishList(S) ==
  LET available == [i \in 1..Len(S.rd.infos) |-> S.rd.infos[i].domain]
  IN  [S EXCEPT
         !.rd.stage = "done", !.rd.inList = FALSE, !.rd.dom = <<>>,
         !.rd.ret = IF S.rd.op = "list_rules"
                      THEN [NoRet EXCEPT !.status = "ok", !.shape = "list",
                                         !.total = Len(S.rd.infos)]
                      ELSE [McpError("InvalidParams") EXCEPT
                              !.available = available, !.failed = <<S.rd.arg>>]]

\* A readRuleFile that starts with the API whatever the cooldown.
StartReadIgnoringCooldown(S) ==
  [S EXCEPT !.rd.stage = "api", !.rd.di = 1, !.rd.ei = 1]

\* readRuleFile(domain) up to its first request: under the cooldown it goes
\* to the raw URLs at once.
StartRead(S) ==
  IF S.rl > now
    THEN [S EXCEPT !.rd.stage = "raw", !.rd.di = 1, !.rd.ei = 1,
                   !.rd.rawFrom = "cooldown"]
    ELSE [S EXCEPT !.rd.stage = "api", !.rd.di = 1, !.rd.ei = 1]

RECURSIVE StartGet(_), FinishGet(_, _), ListLoopR(_), AfterListing(_, _), StartList(_)

\* getRuleContent(S.rd.dom) up to its first request.
StartGet(S) ==
  LET g == getCachedContent(S.cache, S.ts, S.rd.dom)
      S1 == [S EXCEPT !.cache = g.cache, !.ts = g.ts]
  IN  IF ~g.value.isNull THEN FinishGet(S1, g.value)
      ELSE IF token THEN [S1 EXCEPT !.rd.stage = "exists", !.rd.ei = 1]
      ELSE StartRead(S1)

\* getRuleContent returns value to its caller: the loop of
\* listAvailableDomains, processRuleResults of get_rules, or the outside.
FinishGet(S, value) ==
  LET S1 == [S EXCEPT !.rd.di = 0, !.rd.ei = 0, !.rd.adi = 0, !.rd.aei = 0,
                      !.rd.rawFrom = "none"]
  IN  IF S.rd.inList
        THEN ListLoopR([S1 EXCEPT
                          !.rd.infos = Append(@, DomainInfoOf(S.rd.dom, Fulfilled(value))),
                          !.rd.li = @ + 1])
      ELSE IF S.rd.op = "get_rules"
        THEN IF value.isNull
               THEN StartList([S1 EXCEPT !.rd.result = value])
               ELSE [S1 EXCEPT
                       !.rd.stage = "done", !.rd.result = value,
                       !.rd.ret = responseData(
                                    <<S.rd.arg>>,
                                    <<[domain |-> value.domain,
                                       content |-> value.content]>>, <<>>)]
      ELSE [S1 EXCEPT !.rd.stage = "done", !.rd.result = value,
                      !.rd.ret = [NoRet EXCEPT !.status = "ok",
                                               !.shape = "content",
                                               !.value = value]]

\* The loop of listAvailableDomains from index li.
ListLoopR(S) ==
  IF S.rd.li > Len(S.rd.listed) THEN FinishList(S)
  ELSE StartGet([S EXCEPT !.rd.dom = S.rd.listed[S.rd.li]])

\* listAvailableDomains once listRuleFiles returned L.
AfterListing(S, L) ==
  IF SkipsResolution(L)
    THEN FinishList([S EXCEPT !.rd.listed = L,
                              !.rd.infos = [i \in 1..Len(L) |-> TemplatedInfo(L[i])]])
    ELSE ListLoopR([S EXCEPT !.rd.listed = L, !.rd.li = 1, !.rd.inList = TRUE])

\* listRuleFiles when the cooldown is active and no listing is valid.
CooldownListing(dc) ==
  IF dc.has THEN extractDomainsFromDirectoryData(dc.data) ELSE <<>>

\* A listRuleFiles that never answers from a valid cached listing.
StartListNoCache(S) ==
  IF S.rl > now
    THEN AfterListing(S, CooldownListing(S.dc))
    ELSE [S EXCEPT !.rd.stage = "dirs", !.rd.di = 1, !.rd.allFiles = <<>>]

\* listAvailableDomains up to the first request of listRuleFiles: a valid
\* cached listing, then the cooldown, answer without a request.
StartList(S) ==
  IF S.dc.has /\ now - S.dc.timestamp < DIRECTORY_CACHE_TTL
    THEN AfterListing(S, extractDomainsFromDirectoryData(S.dc.data))
  ELSE IF S.rl > now
    THEN AfterListing(S, CooldownListing(S.dc))
  ELSE [S EXCEPT !.rd.stage = "dirs", !.rd.di = 1, !.rd.allFiles = <<>>]

\* The content was read: getRuleContent parses it, caches it and returns it.
ReadOk(S, text) ==
  LET ruleContent == parseRuleContent(text, S.rd.dom)
  IN  FinishGet([S EXCEPT !.cache = MapSet(@, S.rd.dom, ruleContent),
                          !.ts = MapSet(@, S.rd.dom, now)],
                ruleContent)

\* readRuleFile threw: the catch clause of getRuleContent returns null.
ReadFail(S) == FinishGet(S, Null)

\* A sweep of readRuleFile that has the directories in its inner loop.
NextApiDirectoriesInner(S, di, ei) ==
  IF di < Len(directories(path))
    THEN [S EXCEPT !.rd.stage = "api", !.rd.di = di + 1, !.rd.ei = ei]
  ELSE IF ei < Len(extensions)
    THEN [S EXCEPT !.rd.stage = "api", !.rd.di = 1, !.rd.ei = ei + 1]
  ELSE ReadFail(S)

\* The sweep of readRuleFile goes to the candidate after (di, ei), or throws
\* when there is none.
NextApi(S, di, ei) ==
  IF ei < Len(extensions)
    THEN [S EXCEPT !.rd.stage = "api", !.rd.di = di, !.rd.ei = ei + 1]
  ELSE IF di < Len(directories(path))
    THEN [S EXCEPT !.rd.stage = "api", !.rd.di = di + 1, !.rd.ei = 1]
  ELSE ReadFail(S)

\* The same for readRuleFileViaRawUrl.  Its exception ends readRuleFile when
\* it was called before the sweep; called inside the sweep, the exception
\* is caught there and the sweep goes on.
NextRaw(S) ==
  IF S.rd.ei < Len(extensions)
    THEN [S EXCEPT !.rd.ei = @ + 1]
  ELSE IF S.rd.di < Len(directories(path))
    THEN [S EXCEPT !.rd.di = @ + 1, !.rd.ei = 1]
  ELSE IF S.rd.rawFrom = "cooldown" THEN ReadFail(S)
  ELSE NextApi([S EXCEPT !.rd.rawFrom = "none", !.rd.adi = 0, !.rd.aei = 0],
               S.rd.adi, S.rd.aei)

\* The state S becomes the state of the program.
Becomes(S) ==
  /\ rd' = S.rd
  /\ cache' = S.cache
  /\ cacheTimestamps' = S.ts
  /\ directoryCache' = S.dc
  /\ rateLimitResetTime' = S.rl
  /\ UNCHANGED <<now, token, path, remote, probe, requestPromises, req, lastDone>>

ReaderIdle == rd.op = "idle"

\* Time passes between two calls.
TickDir ==
  /\ ReaderIdle
  /\ now + DirTickMs <= MaxTimeReader
  /\ now' = now + DirTickMs
  /\ UNCHANGED <<token, path, remote, directoryCache, rateLimitResetTime, rd,
                 probe>>
  /\ UNCHANGED managerVars

\* The list_rules handler: listAvailableDomains.
CallListRulesR ==
  /\ ReaderIdle
  /\ Becomes(StartList([Cur EXCEPT !.rd.op = "list_rules"]))

\* getRuleContent(d) called from outside.
CallGetRuleContentR(d) ==
  /\ ReaderIdle
  /\ Becomes(StartGet([Cur EXCEPT !.rd.op = "getRuleContent", !.rd.arg = d,
                                  !.rd.dom = d]))

\* The get_rules handler for {domain: d}, d a well-formed domain: with no
\* other call in flight getRuleContentSafe(d) starts getRuleContent(d).
CallGetRulesR(d) ==
  /\ ReaderIdle
  /\ Becomes(StartGet([Cur EXCEPT !.rd.op = "get_rules", !.rd.arg = d,
                                  !.rd.dom = d]))

\* fetchDirectoryContents(dir) once the transport answered: the entries of
\* the directory, nothing for a 404, an exception for every other failure.
fetchDirectoryContents(dir, resp) ==
  [threw |-> resp.kind # "faithful",
   files |-> IF resp.kind = "faithful" /\ dir \in DOMAIN remote
               THEN remote[dir] ELSE <<>>]

\* A sweep that lets the exception of one directory end listRuleFiles:
\* listAvailableDomains then answers with the empty list.
SweepStopsOnFailure(S, threw) ==
  IF threw
    THEN FinishList([S EXCEPT !.rd.di = 0, !.rd.allFiles = <<>>])
  ELSE IF S.rd.di < Len(directories(path))
    THEN [S EXCEPT !.rd.di = @ + 1]
  ELSE AfterListing(
         [S EXCEPT !.rd.di = 0, !.rd.allFiles = <<>>,
                   !.dc = [has |-> TRUE, data |-> S.rd.allFiles,
                           timestamp |-> now]],
         extractDomainsFromDirectoryData(S.rd.allFiles))

\* The loop of listRuleFiles after directory di: whether fetching it threw
\* or not, the next directory is requested; after the last one the listing
\* is cached and returned.
SweepNext(S, threw) ==
  IF S.rd.di < Len(directories(path))
    THEN [S EXCEPT !.rd.di = @ + 1]
    ELSE AfterListing(
           [S EXCEPT !.rd.di = 0, !.rd.allFiles = <<>>,
                     !.dc = [has |-> TRUE, data |-> S.rd.allFiles,
                             timestamp |-> now]],
           extractDomainsFromDirectoryData(S.rd.allFiles))

\* The request of fetchDirectoryContents for directory di is answered.
DirResponse(resp) ==
  /\ rd.stage = "dirs"
  /\ LET S == Received(Cur, resp)
         dir == directories(path)[rd.di]
         got == fetchDirectoryContents(dir, resp)
         ok == ~got.threw /\ dir \in DOMAIN remote
     IN  Becomes(SweepNext(
                   [S EXCEPT !.rd.allFiles = @ \o got.files,
                             !.rd.answered = IF ok THEN Append(@, dir) ELSE @],
                   got.threw))

\* The request of ruleExists for extension ei of <<.md, .mdc>> in directory
\* this.path is answered.  Any entry of that name answers ok; a rejected
\* fetch makes ruleExists return false at once.
existsExtensions == <<ExtMd, ExtMdc>>
ExistsResponse(resp) ==
  /\ rd.stage = "exists"
  /\ LET S == Received(Cur, resp)
         name == rd.dom \o existsExtensions[rd.ei]
         ok == resp.kind = "faithful" /\ EntryTypes(path, name) # {}
     IN  IF ok THEN Becomes(StartRead([S EXCEPT !.rd.ei = 0]))
         ELSE IF resp.kind # "neterr" /\ rd.ei < Len(existsExtensions)
           THEN Becomes([S EXCEPT !.rd.ei = @ + 1])
         ELSE Becomes(FinishGet(S, Null))

\* The request of the sweep of readRuleFile for candidate (di, ei) is
\* answered.  A file is decoded and returned; a throttling status goes to
\* the raw URLs; a 404 goes to the next candidate, and so does every
\* exception (another status, an entry that is not a file, a rejected
\* fetch), which the catch clause inside the loop swallows.
ApiResponse(resp) ==
  /\ rd.stage = "api"
  /\ LET S == Received(Cur, resp)
         dir == directories(path)[rd.di]
         name == rd.dom \o extensions[rd.ei]
     IN  IF resp.kind = "faithful" /\ "file" \in EntryTypes(dir, name)
           THEN Becomes(ReadOk(S, FileText(dir, name)))
         ELSE IF resp.kind = "s403"
           THEN Becomes([S EXCEPT !.rd.stage = "raw", !.rd.rawFrom = "throttle",
                                  !.rd.adi = rd.di, !.rd.aei = rd.ei,
                                  !.rd.di = 1, !.rd.ei = 1])
         ELSE Becomes(NextApi(S, rd.di, rd.ei))

\* The request of readRuleFileViaRawUrl for candidate (di, ei) is answered:
\* the text of a file is returned, everything else goes to the next
\* candidate.
RawResponse(resp) ==
  /\ rd.stage = "raw"
  /\ LET S == Received(Cur, resp)
         dir == directories(path)[rd.di]
         name == rd.dom \o extensions[rd.ei]
     IN  IF resp.kind = "faithful" /\ "file" \in EntryTypes(dir, name)
           THEN Becomes(ReadOk(S, FileText(dir, name)))
           ELSE Becomes(NextRaw(S))

\* The caller takes the answer.
TakeAnswerR ==
  /\ rd.stage = "done"
  /\ rd' = IdleRd
  /\ UNCHANGED <<now, token, path, remote, directoryCache, rateLimitResetTime,
                 probe>>
  /\ UNCHANGED managerVars

ReaderDomains == {A, B}

InitReader ==
  /\ Constructed
  /\ lastDone = HistoryOff
  /\ ReaderConstructed
  /\ path \in Paths
  /\ remote \in Remotes
  /\ probe = NoProbe

NextReader ==
  \/ TickDir
  \/ CallListRulesR
  \/ \E d \in ReaderDomains : CallGetRuleContentR(d)
  \/ \E d \in ReaderDomains : CallGetRulesR(d)
  \/ \E resp \in ApiResponses : DirResponse(resp)
  \/ \E resp \in PlainResponses : ExistsResponse(resp)
  \/ \E resp \in ApiResponses : ApiResponse(resp)
  \/ \E resp \in PlainResponses : RawResponse(resp)
  \/ TakeAnswerR

\* The calls that go through the file reader, one at a time, as time passes.
SpecReader == InitReader /\ [][NextReader]_vars

(***************************************************************************)
(* The manager when the requests to the file reader are answered: a call   *)
(* with a pending ruleExists, readRuleFile or listRuleFiles gets an answer *)
(* in the end, and the code that runs after an await is always run.        *)
(***************************************************************************)
\* The file reader answers the request execution <<r, k>> is suspended in;
\* the listRuleFiles of call r is answered with the execution of its loop.
ReaderAnswers(r, k) ==
  \/ \E e \in BOOLEAN : RuleExistsReturn(r, k, e)
  \/ \E f \in AllReadOutcomes : ReadRuleFileReturn(r, k, f)
  \/ k = 0 /\ \E l \in ListOutcomes : ListRuleFilesReturn(r, l)

\* One of the requests of call r is answered.
CallIsAnswered(r) == \E k \in {0} \cup ItemIndexes : ReaderAnswers(r, k)

AnswerTaken == \E r \in Reqs : TakeAnswer(r)

NextFair ==
  \/ \E r \in Reqs, D \in SafeDomains : CallGetRuleContent(r, D)
  \/ \E r \in Reqs, D \in SafeDomains : CallGetRuleContentSafe(r, D)
  \/ \E r \in Reqs, ds \in MultiLists : CallGetMultipleRuleContents(r, ds)
  \/ \E r \in Reqs : CallListRules(r)
  \/ \E r \in Reqs : CallIsAnswered(r)
  \/ AnswerTaken

SpecFair ==
  /\ Init
  /\ [][NextFair]_vars
  /\ \A r \in Reqs : SF_vars(CallIsAnswered(r))
  /\ WF_vars(AnswerTaken)

(***************************************************************************)
(* Directory listings: extractDomainsFromDirectoryData applied to          *)
(* directories of one or two entries.                                      *)
(***************************************************************************)
ExtJson == <<".", "j", "s", "o", "n">>
ExtUpperMd == <<".", "M", "D">>
FileStems ==
  {A, B, Empty, BadA, DotA, Readme, Readme \o A, <<"-">> \o Readme,
   Contributing, CodeOfConduct, Security, Support, License, License \o A}
FileEndings ==
  {extensions[i] : i \in DOMAIN extensions}
    \cup {Empty, ExtJson, ExtUpperMd, ExtMd \o ExtJson}
\* The types the contents API gives an entry.
EntryKinds == {"file", "dir", "symlink"}
Entries ==
  {[name |-> st \o e, type |-> t] :
     st \in FileStems, e \in FileEndings, t \in EntryKinds}
PairEntries ==
  {File(BadA \o ExtMd), File(ExtMd), File(Readme \o ExtMd), Dir(A \o ExtMd),
   File(A \o ExtMd), File(A \o ExtMdc), File(B \o Prompt \o ExtMd),
   File(DotA \o ExtMd)}
DirectoryData ==
  {<<e>> : e \in Entries} \cup {<<e1, e2>> : e1 \in PairEntries, e2 \in PairEntries}

InitFiles ==
  /\ Constructed
  /\ lastDone = HistoryOff
  /\ ReaderConstructed
  /\ path = "rules"
  /\ remote = RemoteRules
  /\ probe \in {[applied |-> FALSE, data |-> d, out |-> <<>>] : d \in DirectoryData}

ExtractDomains ==
  /\ ~probe.applied
  /\ probe' = [probe EXCEPT
                 !.applied = TRUE,
                 !.out = extractDomainsFromDirectoryData(probe.data)]
  /\ UNCHANGED <<now, token, path, remote, directoryCache, rateLimitResetTime,
                 rd>>
  /\ UNCHANGED managerVars

NextFiles == ExtractDomains

SpecFiles == InitFiles /\ [][NextFiles]_vars

(***************************************************************************)
(* Resolutions that overlap while the repository changes.  The transport   *)
(* reads the file of a readRuleFile at some instant between the request    *)
(* and its answer; answers arrive in any order.                            *)
(***************************************************************************)
\* The repository after a.md was deleted: the rule file of a is now a.mdc.
RemoteRulesLater ==
  [d \in {"rules"} |->
     <<File(A \o ExtMdc), File(Readme \o ExtMd), Dir(<<"d">> \o ExtMd),
       File(B \o Chatmode \o ExtMd), File(BadA \o ExtMd)>>]

\* The text readRuleFile(D) finds in repository R: the text of the first
\* candidate, directories outside and extensions inside, that is a file;
\* the empty text stands for no such file.
ServedTextIn(R, D) ==
  LET dirs == directories(path)
      hits == {c \in (DOMAIN dirs) \X (DOMAIN extensions) :
                 /\ dirs[c[1]] \in DOMAIN R
                 /\ File(D \o extensions[c[2]]) \in
                      {R[dirs[c[1]]][i] : i \in DOMAIN R[dirs[c[1]]]}}
      first == CHOOSE c \in hits :
                 \A c2 \in hits :
                   c[1] < c2[1] \/ (c[1] = c2[1] /\ c[2] <= c2[2])
  IN  IF hits = {} THEN ""
      ELSE FileText(dirs[first[1]], D \o extensions[first[2]])

ServedText(D) == ServedTextIn(remote, D)

\* A commit changes the repository.
RemoteChanges ==
  /\ Quiet
  /\ remote = RemoteRules
  /\ remote' = RemoteRulesLater
  /\ UNCHANGED <<now, token, path, directoryCache, rateLimitResetTime, rd,
                 probe>>
  /\ UNCHANGED managerVars

\* The transport reads the file for the readRuleFile of execution <<r, k>>
\* from the repository as it is now.
TransportReads(r, k) ==
  /\ Quiet
  /\ k \in Slots(r)
  /\ ResAt(r, k).pc = "read"
  /\ ResAt(r, k).text = ""
  /\ ServedText(ResAt(r, k).dom) # ""
  /\ req' = IF k = 0
              THEN [req EXCEPT ![r].cur.text = ServedText(ResAt(r, k).dom)]
              ELSE [req EXCEPT ![r].items[k].text = ServedText(ResAt(r, k).dom)]
  /\ UNCHANGED <<now, token, cache, cacheTimestamps, requestPromises, lastDone>>
  /\ UNCHANGED readerVars

\* readRuleFile returns the text the transport read for it.
ReadRuleFileReturnsRead(r, k) ==
  /\ k \in Slots(r)
  /\ ResAt(r, k).text # ""
  /\ ReadRuleFileReturn(r, k, [ok |-> TRUE, text |-> ResAt(r, k).text])

\* readRuleFile throws: no candidate answered with a file.
ReadRuleFileThrows(r, k) ==
  /\ k \in Slots(r)
  /\ ResAt(r, k).text = ""
  /\ ReadRuleFileReturn(r, k, [ok |-> FALSE, text |-> ""])

OverlapArgs == {[domain |-> Str(A), domains |-> NoDomains]}

NextOverlap ==
  \/ RemoteChanges
  \/ \E r \in Reqs, D \in SafeDomains : CallGetRuleContent(r, D)
  \/ \E r \in Reqs, D \in SafeDomains : CallGetRuleContentSafe(r, D)
  \/ \E r \in Reqs, args \in OverlapArgs : CallGetRules(r, args)
  \/ \E r \in Reqs : CallListRules(r)
  \/ \E r \in Reqs, l \in ListOutcomes : ListRuleFilesReturn(r, l)
  \/ \E r \in Reqs, k \in {0} \cup ItemIndexes, e \in BOOLEAN : RuleExistsReturn(r, k, e)
  \/ \E r \in Reqs, k \in {0} \cup ItemIndexes : TransportReads(r, k)
  \/ \E r \in Reqs, k \in {0} \cup ItemIndexes : ReadRuleFileReturnsRead(r, k)
  \/ \E r \in Reqs, k \in {0} \cup ItemIndexes : ReadRuleFileThrows(r, k)
  \/ \E r \in Reqs : TakeAnswer(r)

SpecOverlap == Init /\ [][NextOverlap]_vars

(***************************************************************************)
(* Observations used by the properties.                                    *)
(***************************************************************************)
\* The executions of the calls: <<slot, index>>.
Execs == {e \in Reqs \X ItemIndexes : e[2] <= Len(req[e[1]].items)}
Res(e) == req[e[1]].items[e[2]]
SafeExecs == {e \in Execs : Res(e).role \in {"create", "join"}}
Unsettled(e) == Res(e).pc # "done"

\* The promise a getRuleContentSafe execution holds: its own when it
\* started getRuleContent, the one it found in the table otherwise.
PromiseOf(e) == IF Res(e).role = "create" THEN e ELSE Res(e).prom

\* The executions of getRuleContent that are suspended in the file reader
\* for domain D, the one of a listing loop included.
Resolving(D) ==
  {e \in Execs : Res(e).role # "join" /\ Res(e).dom = D /\ Res(e).pc \in {"exists", "read"}}
    \cup {<<r, 0>> : r \in {x \in Reqs : req[x].cur.dom = D
                                          /\ req[x].cur.pc \in {"exists", "read"}}}

Resolved(o) == o.status = "fulfilled" /\ ~o.value.isNull

\* In this step call r starts, and its first execution is a getRuleContent.
StartsGetRuleContent(r) ==
  /\ req[r].kind = "idle"
  /\ req'[r].kind # "idle"
  /\ Len(req'[r].items) >= 1
  /\ req'[r].items[1].role \in {"direct", "create"}

\* The cache holds D, with the given freshness.
Cached(D) == D \in DOMAIN cache /\ D \in DOMAIN cacheTimestamps
ValidEntry(D) == Cached(D) /\ now - cacheTimestamps[D] < CACHE_TTL
ExpiredEntry(D) == Cached(D) /\ now - cacheTimestamps[D] >= CACHE_TTL

(***************************************************************************)
(* Properties.                                                             *)
(***************************************************************************)
\* C1: getRuleContentSafe executions of one domain that are unsettled at the
\* same time all hold one promise (so getRuleContent and its fetch were
\* started once for them), and they settle in the same step with the same
\* result.
C1_SafeCallsCoalesce ==
  [][/\ \A e1 \in SafeExecs', e2 \in SafeExecs' :
          (Unsettled(e1)' /\ Unsettled(e2)' /\ Res(e1)'.dom = Res(e2)'.dom)
            => PromiseOf(e1)' = PromiseOf(e2)'
     /\ \A e1 \in SafeExecs, e2 \in SafeExecs :
          (Unsettled(e1) /\ Unsettled(e2) /\ Res(e1).dom = Res(e2).dom
             /\ Res(e1)'.pc = "done")
            => (Res(e2)'.pc = "done" /\ Res(e2)'.out = Res(e1)'.out)]_vars

\* Two calls wait for one resolution: one started it, the other joined.
C1_Witness ==
  \E e1 \in SafeExecs, e2 \in SafeExecs :
    /\ e1[1] # e2[1]
    /\ Res(e1).role = "create" /\ Res(e1).pc \in {"exists", "read"}
    /\ Res(e2).role = "join" /\ Res(e2).pc = "wait" /\ Res(e2).prom = e1

\* C2: for every domain, at most one getRuleContent is suspended in the
\* file reader at any time, whichever entry points started them.
C2_OneResolutionPerDomain ==
  \A D \in CallDomains : Cardinality(Resolving(D)) <= 1

\* C3 (as stated): a getRuleContent(D) that starts when the last completed
\* getRuleContent was one of D, less than the TTL ago and with no clearCache
\* since, sends no transport request and returns the result of that call.
C3_ConsecutiveCallsEqual ==
  [][\A r \in Reqs :
       (StartsGetRuleContent(r) /\ lastDone.has
          /\ lastDone.dom = req'[r].items[1].dom)
         => /\ req'[r].items[1].pc = "done"
            /\ req'[r].items[1].out = Fulfilled(lastDone.value)
            /\ req'[r].ret.status = "ok"
            /\ req'[r].ret.value = lastDone.value]_vars

\* C3 (amended): the same, when the earlier call returned a RuleContent and
\* that content entered the cache less than the TTL ago.
C3_ConsecutiveCallsEqualWhileCached ==
  [][\A r \in Reqs :
       (StartsGetRuleContent(r) /\ lastDone.has
          /\ lastDone.dom = req'[r].items[1].dom /\ ~lastDone.value.isNull
          /\ now - lastDone.ins < CACHE_TTL)
         => /\ req'[r].items[1].pc = "done"
            /\ req'[r].items[1].out = Fulfilled(lastDone.value)
            /\ req'[r].ret.status = "ok"
            /\ req'[r].ret.value = lastDone.value]_vars

\* A getRuleContent has just been answered from an entry that an earlier
\* call of the same domain stored half a TTL before.
C3_Witness ==
  \E r \in Reqs :
    /\ req[r].kind = "getRuleContent" /\ req[r].phase = "done"
    /\ Resolved(req[r].items[1].out)
    /\ lastDone.has /\ lastDone.dom = req[r].items[1].dom
    /\ lastDone.value = req[r].ret.value
    /\ now - lastDone.ins = TickMs

\* C4: a call that is answered at once with a RuleContent found a valid
\* entry (age below the TTL) holding that content; a call that finds a valid
\* entry fetches nothing; a call that finds an expired entry removes it and
\* suspends in the file reader; and an entry leaves the cache only in a step
\* that starts a getRuleContent of its own domain or in a clearCache.
C4_TtlAndLazyEviction ==
  [][/\ \A r \in Reqs :
          StartsGetRuleContent(r) =>
            LET D == req'[r].items[1].dom
                x == req'[r].items[1]
            IN  /\ (x.pc = "done" /\ Resolved(x.out))
                      => (ValidEntry(D) /\ x.out.value = cache[D])
                /\ ValidEntry(D)
                      => (x.pc = "done" /\ x.out = Fulfilled(cache[D])
                          /\ UNCHANGED <<cache, cacheTimestamps>>)
                /\ ExpiredEntry(D)
                      => (D \notin DOMAIN cache' /\ D \notin DOMAIN cacheTimestamps'
                          /\ x.pc \in {"exists", "read"})
     /\ \A D \in DOMAIN cache :
          D \notin DOMAIN cache'
            => \/ \E r \in Reqs : StartsGetRuleContent(r) /\ req'[r].items[1].dom = D
               \/ \E d \in ClearArgs : clearCache(d)]_vars

\* An expired entry is still in the cache while a call of another domain is
\* answered from an entry of positive age.
C4_Witness ==
  \E r \in Reqs, D \in DOMAIN cache :
    /\ ExpiredEntry(D)
    /\ req[r].phase = "done" /\ req[r].items[1].dom # D
    /\ Resolved(req[r].items[1].out)
    /\ ValidEntry(req[r].items[1].dom)
    /\ now - cacheTimestamps[req[r].items[1].dom] = TickMs

(***************************************************************************)
(* Observations on calls and their answers.                                *)
(***************************************************************************)
\* Execution k of call r is done after this step and was not before it.
Completes(r, k) ==
  /\ k <= Len(req'[r].items)
  /\ req'[r].items[k].pc = "done"
  /\ (k > Len(req[r].items) \/ req[r].items[k].pc # "done")

\* The indices of the executions of call q that gave a RuleContent, and the
\* n-th of a set of indices in increasing order.
ResolvedIdx(q) == {i \in 1..Len(q.items) : Resolved(q.items[i].out)}
FailedIdx(q) == (1..Len(q.items)) \ ResolvedIdx(q)
Nth(S, n) == CHOOSE i \in S : Cardinality({x \in S : x < i}) = n - 1

\* The characters a domain name may contain, and the arguments of get_rules
\* that hold a domain string with another character.
AllowedChars == Letters \cup Digits \cup {"-", "_"}
BadString(v) == v.t = "string" /\ \E i \in 1..Len(v.s) : v.s[i] \notin AllowedChars
HasBadChar(args) ==
  \/ BadString(args.domain)
  \/ BadString(args.domains)
  \/ \E i \in 1..Len(args.domains.xs) : BadString(args.domains.xs[i])

\* A property of the arguments is supplied when it is not undefined.
Supplied(v) == v.t # "undefined"
WellFormedDomain(v) == v.t = "string" /\ Len(v.s) > 0
WellFormedDomains(v) ==
  /\ v.t = "array"
  /\ Len(v.xs) > 0
  /\ \A i \in 1..Len(v.xs) : WellFormedDomain(v.xs[i])

\* Call r holds the answer of a get_rules that was refused before any work.
RefusedGetRules(q) ==
  /\ q.kind = "get_rules" /\ q.phase = "done" /\ q.ret.status = "error"
  /\ q.items = <<>> /\ q.lpc = "none"

\* C5: an execution of getRuleContent never ends rejected: a failure of the
\* existence check or of the read gives null, and a RuleContent is given only
\* when the cache holds it after the step (it was just fetched, parsed and
\* stored, or a valid entry was found); the answer of a direct call is never
\* an exception.
C5_GetRuleContentNeverThrows ==
  [][/\ \A r \in Reqs, k \in ItemIndexes :
          Completes(r, k) =>
            LET x == req'[r].items[k]
            IN  /\ x.out.status = "fulfilled"
                /\ ~x.out.value.isNull
                      => (x.dom \in DOMAIN cache' /\ cache'[x.dom] = x.out.value
                          /\ now' - cacheTimestamps'[x.dom] < CACHE_TTL)
                /\ (RuleExistsReturn(r, k, FALSE)
                      \/ ReadRuleFileReturn(r, k, [ok |-> FALSE, text |-> ""]))
                      => x.out = Fulfilled(Null)
     /\ \A r \in Reqs :
          (req'[r].kind = "getRuleContent" /\ req'[r].phase = "done")
            => req'[r].ret.status = "ok"]_vars

\* getRuleContent of the empty domain has returned null after its read
\* failed.
C5_Witness ==
  \E r \in Reqs :
    /\ req[r].kind = "getRuleContent" /\ req[r].phase = "done"
    /\ req[r].items[1].dom = Empty
    /\ req[r].ret.status = "ok" /\ req[r].ret.value.isNull

\* C6: the answer of getMultipleRuleContents is a map, given once every
\* execution is done, whose keys are the requested domains and whose value
\* for each requested domain is the RuleContent its own execution gave, null
\* when it gave none.
C6_MultipleMapsEveryDomain ==
  \A r \in Reqs :
    (req[r].kind = "getMultipleRuleContents" /\ req[r].phase = "done")
      => /\ req[r].ret.status = "ok" /\ req[r].ret.shape = "map"
         /\ AllDone(req[r].items)
         /\ DOMAIN req[r].results = {req[r].doms[i] : i \in 1..Len(req[r].doms)}
         /\ \A i \in 1..Len(req[r].doms) :
              req[r].results[req[r].doms[i]] =
                IF Resolved(req[r].items[i].out) THEN req[r].items[i].out.value
                                                 ELSE Null

\* A map with content for one domain and null for the other.
C6_Witness ==
  \E r \in Reqs :
    /\ req[r].kind = "getMultipleRuleContents" /\ req[r].phase = "done"
    /\ req[r].doms = <<A, B>>
    /\ ~req[r].results[A].isNull
    /\ req[r].results[B].isNull

\* C7: a get_rules whose arguments hold a domain string with a character
\* outside [A-Za-z0-9_-] is answered at once with InvalidParams, starts no
\* execution and no listing, and leaves the cache, its timestamps and the
\* in-flight table as they were.
C7_BadCharacterRejected ==
  [][\A r \in Reqs, args \in GetRulesArgs :
       (HasBadChar(args) /\ CallGetRules(r, args))
         => /\ RefusedGetRules(req'[r])
            /\ req'[r].ret.code = "InvalidParams"
            /\ UNCHANGED <<cache, cacheTimestamps, requestPromises>>]_vars

\* A request with a valid and an invalid domain has been refused while the
\* cache holds an entry and another call is in flight.
C7_Witness ==
  \E r \in Reqs :
    /\ RefusedGetRules(req[r])
    /\ req[r].args.domains = Arr(<<Str(A), Str(BadA)>>)
    /\ req[r].ret.code = "InvalidParams"
    /\ cache # EmptyMap
    /\ requestPromises # EmptyMap

\* C8: the answer of a get_rules for several domains, when it is a result:
\* rules are the requested domains that gave a RuleContent, in request
\* order, with their content; total is their number; failed are the
\* requested domains that gave none, in request order, present only when
\* there is one; total plus the number of failed is the number requested.
C8_MultiDomainResponse ==
  \A r \in Reqs :
    (req[r].kind = "get_rules" /\ req[r].phase = "done"
       /\ req[r].ret.status = "ok" /\ Len(req[r].doms) > 1)
      => LET q == req[r]
             ok == ResolvedIdx(q)
             ko == FailedIdx(q)
         IN  /\ q.ret.shape = "multi"
             /\ ok # {}
             /\ Len(q.ret.rules) = Cardinality(ok)
             /\ \A j \in 1..Len(q.ret.rules) :
                  /\ q.ret.rules[j].title = q.doms[Nth(ok, j)]
                  /\ q.ret.rules[j].content = q.items[Nth(ok, j)].out.value.content
             /\ q.ret.total = Len(q.ret.rules)
             /\ q.ret.hasFailed = (ko # {})
             /\ Len(q.ret.failed) = Cardinality(ko)
             /\ \A j \in 1..Len(q.ret.failed) : q.ret.failed[j] = q.doms[Nth(ko, j)]
             /\ q.ret.total + Len(q.ret.failed) = Len(q.doms)

\* A partial result: a resolved and b failed.
C8_Witness ==
  \E r \in Reqs :
    /\ req[r].kind = "get_rules" /\ req[r].phase = "done"
    /\ req[r].ret.status = "ok" /\ req[r].doms = <<A, B>>
    /\ req[r].ret.total = 1
    /\ req[r].ret.rules[1].title = A
    /\ req[r].ret.failed = <<B>>

\* C9: a validated get_rules goes on only when all its executions are done;
\* it then gives a result when one of them gave a RuleContent, and otherwise
\* lists the available domains and fails with InvalidParams naming the
\* domains that listAvailableDomains returned.
C9_FailsOnlyWhenNoneResolves ==
  \A r \in Reqs :
    req[r].kind = "get_rules" /\ ~RefusedGetRules(req[r]) =>
      LET q == req[r]
      IN  /\ q.phase = "items" => ~AllDone(q.items)
          /\ q.phase # "items" => AllDone(q.items)
          /\ (q.phase = "done" /\ q.ret.status = "ok") <=>
               (AllDone(q.items) /\ ResolvedIdx(q) # {})
          /\ q.phase = "list" => ResolvedIdx(q) = {}
          /\ (q.phase = "done" /\ q.ret.status = "error")
               => /\ ResolvedIdx(q) = {}
                  /\ q.ret.code = "InvalidParams"
                  /\ q.ret.available =
                       [i \in 1..Len(q.infos) |-> q.infos[i].domain]
                  /\ q.lpc = "returned"

\* A get_rules for a and b has failed, naming the listed domains.
C9_Witness ==
  \E r \in Reqs :
    /\ req[r].kind = "get_rules" /\ req[r].phase = "done"
    /\ req[r].doms = <<A, B>>
    /\ req[r].ret.status = "error"
    /\ req[r].ret.available = <<A, B>>

\* C10: a get_rules with both domain and domains supplied, or with neither,
\* is refused with InvalidParams; one that is not refused has exactly one of
\* them: domain as a non-empty string or domains as a non-empty array of
\* non-empty strings.
C10_ExactlyOneOfDomainAndDomains ==
  [][\A r \in Reqs, args \in GetRulesArgs :
       CallGetRules(r, args) =>
         /\ (Supplied(args.domain) <=> Supplied(args.domains))
              => (RefusedGetRules(req'[r]) /\ req'[r].ret.code = "InvalidParams")
         /\ ~RefusedGetRules(req'[r])
              => \/ WellFormedDomain(args.domain) /\ ~Supplied(args.domains)
                 \/ WellFormedDomains(args.domains) /\ ~Supplied(args.domain)]_vars

\* C11: a successful get_rules answer has the shape of its request: a request
\* accepted on the domain parameter is answered with {title, content}, one
\* accepted on the domains array with {rules, total, failed?}, whatever the
\* length of the array.
C11_ShapeFollowsRequestForm ==
  \A r \in Reqs :
    (req[r].kind = "get_rules" /\ req[r].phase = "done" /\ req[r].ret.status = "ok")
      => /\ req[r].form = "domain" => req[r].ret.shape = "single"
         /\ req[r].form = "domains" => req[r].ret.shape = "multi"
\* The call r has run listAvailableDomains to its end.
ListedAll(r) ==
  /\ req[r].phase = "done"
  /\ req[r].lpc = "returned"

\* listAvailableDomains resolves the listed domains one by one.
ResolvesListing(L) == token \/ Len(L) <= NoTokenListLimit

\* C12: listAvailableDomains never throws (list_rules always answers with a
\* list); when it resolves the listed domains it returns one DomainInfo per
\* listed domain, in the order of the listing, whatever the outcome of each
\* resolution; the DomainInfo pushed for a domain whose resolution gave null
\* carries the placeholder description, the one of a resolved domain a
\* description of its content; no description is empty.
C12_ListNeverThrowsOneInfoPerDomain ==
  [][/\ \A r \in Reqs :
          ListedAll(r)' =>
            LET q == req'[r]
            IN  /\ q.kind = "list_rules" => q.ret.status = "ok" /\ q.ret.total = Len(q.infos)
                /\ ResolvesListing(q.listed) =>
                      /\ Len(q.infos) = Len(q.listed)
                      /\ \A i \in 1..Len(q.listed) : q.infos[i].domain = q.listed[i]
                /\ \A i \in 1..Len(q.infos) : q.infos[i].description # ""
    /\ \A r2 \in Reqs :
         LET pushed == req'[r2].infos[Len(req[r2].infos) + 1]
             D == req[r2].cur.dom
         IN  /\ RuleExistsReturn(r2, 0, FALSE) =>
                   pushed = [domain |-> D, description |-> MetadataUnavailable]
             /\ \A f \in AllReadOutcomes :
                   ReadRuleFileReturn(r2, 0, f) =>
                     /\ pushed.domain = D
                     /\ f.ok <=> pushed.description # MetadataUnavailable
    ]_vars

\* A listing of two domains has been answered with two entries, the first a
\* placeholder and the second described from its content.
C12_Witness ==
  \E r \in Reqs :
    /\ ListedAll(r)
    /\ req[r].kind = "list_rules"
    /\ Len(req[r].listed) = 2
    /\ Len(req[r].infos) = 2
    /\ req[r].infos[1].description = MetadataUnavailable
    /\ req[r].infos[2].description \notin {MetadataUnavailable, ""}
getCacheStats(c) == [size |-> Cardinality(DOMAIN c), domains |-> DOMAIN c]

\* The domains that have a cache entry and an insertion timestamp.
CachedDomains == {D \in DOMAIN cache : D \in DOMAIN cacheTimestamps}

EndsWithCompound(name) ==
  \E i \in DOMAIN compoundExtensions : EndsWith(name, compoundExtensions[i])

\* C19: for every supported extension E and every valid domain name,
\* extractDomainFromFilename(name + E) is name.
C19_ExtractRoundTrip ==
  (probe.applied /\ isValidDomain(probe.name)) => probe.out = probe.name

\* C19 (amended): the same, except for a name that ends with a compound
\* marker and is given the plain .md extension: the marker is stripped with
\* the extension.
C19_ExtractRoundTripUnlessCompoundName ==
  (probe.applied /\ isValidDomain(probe.name))
    => IF probe.ext = ExtMd /\ EndsWithCompound(probe.name)
         THEN probe.out # probe.name
         ELSE probe.out = probe.name

\* A name that ends with one compound marker was given another compound
\* extension and came back.
C19_Witness ==
  /\ probe.applied
  /\ probe.name = A \o Prompt
  /\ probe.ext = Chatmode \o ExtMd
  /\ probe.out = probe.name

\* The domains of the listing listRuleFiles cached last.
CachedListing ==
  IF directoryCache.has
    THEN {extractDomainsFromDirectoryData(directoryCache.data)[i] :
            i \in DOMAIN extractDomainsFromDirectoryData(directoryCache.data)}
    ELSE {}

\* getRuleContent(rd.arg), called from outside, returned, and every answer
\* the transport gave it was the one the repository implies.
GetRuleContentReturned ==
  /\ rd.op = "getRuleContent"
  /\ rd.stage = "done"
  /\ rd.faithful

\* C13: every domain listAvailableDomains listed is retrievable: with the
\* repository unchanged, getRuleContent(d) returns a RuleContent of domain
\* d, whatever the extension and the directory of the file it was listed
\* from, with or without an access token.
C13_ListedDomainsRetrievable ==
  (GetRuleContentReturned /\ rd.arg \in CachedListing)
    => (~rd.result.isNull /\ rd.result.domain = rd.arg)

\* listAvailableDomains is called, and with it listRuleFiles, while the
\* cooldown is active and no cached listing is younger than
\* DIRECTORY_CACHE_TTL.
ListRuleFilesUnderCooldown ==
  /\ ReaderIdle
  /\ rd'.op = "list_rules"
  /\ rateLimitResetTime > now
  /\ ~(directoryCache.has /\ now - directoryCache.timestamp < DIRECTORY_CACHE_TTL)

\* C16: listRuleFiles called under the cooldown with no valid cached listing
\* sends no request and returns the domains of the last cached listing,
\* expired or not, and without one the built-in list of known domains.
C16_CooldownListingOrFallback ==
  [][ListRuleFilesUnderCooldown
       => /\ rd'.stage # "dirs"
          /\ directoryCache' = directoryCache
          /\ rd'.listed = IF directoryCache.has
                            THEN extractDomainsFromDirectoryData(directoryCache.data)
                            ELSE FALLBACK_DOMAINS
     ]_vars

\* The entries of the directories dirs of the repository, in order.
RECURSIVE FilesOf(_)
FilesOf(dirs) ==
  IF dirs = <<>> THEN <<>> ELSE remote[Head(dirs)] \o FilesOf(Tail(dirs))

\* C17: in the sweep of listRuleFiles a directory that answers 404 or fails
\* contributes no entry and the next directory is still requested; the
\* listing is the domains of the directories that answered with their
\* entries, and listRuleFiles does not fail.
C17_DirectoryFailureIsNotFatal ==
  [][rd.stage = "dirs"
       => /\ \/ rd'.answered = rd.answered
             \/ rd'.answered = Append(rd.answered, directories(path)[rd.di])
          /\ (rd.faithful /\ ~rd'.faithful) => rd'.answered = rd.answered
          /\ IF rd.di < Len(directories(path))
               THEN /\ rd'.stage = "dirs"
                    /\ rd'.di = rd.di + 1
                    /\ rd'.allFiles = FilesOf(rd'.answered)
               ELSE /\ rd'.stage # "dirs"
                    /\ directoryCache'.has
                    /\ directoryCache'.data = FilesOf(rd'.answered)
                    /\ rd'.listed =
                         extractDomainsFromDirectoryData(FilesOf(rd'.answered))
                    /\ (rd'.op = "list_rules" /\ rd'.stage = "done")
                         => (rd'.ret.status = "ok"
                             /\ rd'.ret.total = Len(rd'.listed))
     ]_vars

\* list_rules answered with the domains of prompts although the request for
\* chatmodes failed.
C17_Witness ==
  /\ rd.op = "list_rules"
  /\ rd.stage = "done"
  /\ path = ""
  /\ ~rd.faithful
  /\ rd.answered = <<"prompts">>
  /\ rd.listed = <<A, B>>
  /\ rd.ret.status = "ok"

\* The entry item is a rule file of the valid domain d.
IsRuleFileOf(item, d) ==
  /\ item.type = "file"
  /\ isRuleFile(item.name)
  /\ extractDomainFromFilename(item.name) = d
  /\ isValidDomain(d)

\* The index of the first rule file of domain d in data.
FirstFileOf(data, d) ==
  CHOOSE i \in DOMAIN data :
    /\ IsRuleFileOf(data[i], d)
    /\ \A j \in 1..(i - 1) : ~IsRuleFileOf(data[j], d)

\* listRuleFiles returned rd.listed in the call that is running, from the
\* cached entries.
ListingReturned ==
  \/ rd.inList
  \/ rd.op = "list_rules" /\ rd.stage = "done"
  \/ rd.op = "get_rules" /\ rd.stage = "done" /\ rd.ret.status = "error"

ListedFrom == IF directoryCache.has THEN directoryCache.data ELSE <<>>

\* C18: the list listRuleFiles returns holds no domain twice: of several
\* files of one domain, in one directory or across directories, the first
\* contributes the entry, and the domains keep the order in which they were
\* first met.
C18_ListingHasNoDuplicates ==
  ListingReturned
    => /\ \A i, j \in DOMAIN rd.listed : rd.listed[i] = rd.listed[j] => i = j
       /\ \A k \in DOMAIN ListedFrom :
            LET d == extractDomainFromFilename(ListedFrom[k].name)
            IN  IsRuleFileOf(ListedFrom[k], d)
                  => \E i \in DOMAIN rd.listed : rd.listed[i] = d
       /\ \A i \in DOMAIN rd.listed :
            \E k \in DOMAIN ListedFrom : IsRuleFileOf(ListedFrom[k], rd.listed[i])
       /\ \A i, j \in DOMAIN rd.listed :
            i < j => FirstFileOf(ListedFrom, rd.listed[i])
                       < FirstFileOf(ListedFrom, rd.listed[j])

\* A listing was returned from three directories of which two hold a file
\* of the same domain, and the listing has two domains.
C18_Witness ==
  /\ rd.op = "list_rules"
  /\ rd.stage = "done"
  /\ path = ""
  /\ rd.answered = <<"chatmodes", "prompts">>
  /\ \E i, j \in DOMAIN ListedFrom :
       /\ i < j
       /\ IsRuleFileOf(ListedFrom[i], A)
       /\ IsRuleFileOf(ListedFrom[j], A)
  /\ rd.listed = <<A, B>>

\* The repository holds a rule file of domain d in a directory the reader
\* sweeps.
HasRuleFile(d) ==
  \E di \in DOMAIN directories(path), ei \in DOMAIN extensions :
    "file" \in EntryTypes(directories(path)[di], d \o extensions[ei])

\* get_rules for one domain failed, no token is configured, the repository
\* holds the rule file, and a request of the resolution was answered with
\* an error status other than 404 and throttling, or was rejected.
GetRulesFailedOnTransport ==
  /\ rd.op = "get_rules"
  /\ rd.stage = "done"
  /\ rd.ret.status = "error"
  /\ rd.cause = "transport"
  /\ ~token
  /\ HasRuleFile(rd.arg)

\* C20: a resolution that fails on a transport error which is neither a 404
\* nor a throttling answer, the fallback transport failing too, reaches the
\* caller of get_rules as an internal error and not as invalid parameters.
C20_TransportFailureIsInternalError ==
  GetRulesFailedOnTransport => rd.ret.code = "InternalError"

\* The characters of the texts.
TextChars == UNION {{l[i] : i \in DOMAIN l} : l \in RuleLines} \cup {"\n"}
IsText(s) == \A i \in DOMAIN s : s[i] \in TextChars

\* C21: parseRuleContent returns a RuleContent for every text, the empty
\* one, binary-like ones and those with an opening --- that is never closed
\* included, and the domain of the result is the domain argument.
C21_ParseIsTotalAndKeepsDomain ==
  probe.applied
    => /\ ~probe.out.isNull
       /\ probe.out.domain = probe.domain
       /\ IsText(probe.out.content)
       /\ probe.out.content = Trim(probe.out.content)
       /\ probe.out.description # Undefined

\* A text that opens a frontmatter block with a domain line and never
\* closes it was parsed.
C21_Witness ==
  /\ probe.applied
  /\ StartsWith(probe.text, Dashes \o <<"\n">> \o DomainKey)
  /\ ~frontmatterMatch(probe.text).found
  /\ probe.out.domain = probe.domain
  /\ probe.out.content = probe.text

\* The text has no frontmatter block and no inline metadata bullet.
PlainText(s) ==
  /\ ~frontmatterMatch(s).found
  /\ ~inlineMatch(s, DescriptionKey \o <<":">>).found
  /\ ~inlineMatch(s, LastKey \o <<" ">> \o UpdatedKey \o <<":">>).found
  /\ ~inlineMatch(s, VersionKey \o <<":">>).found

\* C22: for a valid domain and a text without frontmatter block and without
\* inline metadata bullets, the description parseRuleContent returns is not
\* empty.
C22_GeneratedDescriptionNotEmpty ==
  (probe.applied /\ isValidDomain(probe.domain) /\ PlainText(probe.text))
    => probe.out.description # <<>>

\* The step stays inside the readRuleFile call that is running: the same
\* domain at the same place of the same caller.
SameReadRuleFile ==
  /\ rd'.dom = rd.dom
  /\ rd'.inList = rd.inList
  /\ rd'.li = rd.li
  /\ rd'.op = rd.op

\* C23: once a request of the sweep of readRuleFile was answered with a
\* throttling status, that call sends no further request to the API: the
\* raw URLs are swept once and their outcome is the outcome of the call.
C23_NoApiRequestAfterThrottling ==
  [][(rd.stage = "raw" /\ rd.rawFrom = "throttle")
       => ~(SameReadRuleFile /\ rd'.stage = "api")
     ]_vars

\* A request of the sweep of readRuleFile, called for the domain asked for,
\* is answered with an error status other than 404 and throttling, or is
\* rejected, for the first time.
ApiRequestFailsOnTransport ==
  /\ rd.stage = "api"
  /\ rd.cause = "none"
  /\ rd'.cause = "transport"

\* C24: when a request of the sweep of readRuleFile fails on an error that
\* is neither a 404 nor a throttling answer, the sweep stops at that
\* candidate and the raw URLs are tried before the call fails.
C24_TransportErrorTriggersFallback ==
  [][ApiRequestFailsOnTransport => (SameReadRuleFile /\ rd'.stage = "raw")]_vars

\* A request to the API is under way: of the sweep of readRuleFile, of
\* fetchDirectoryContents or of ruleExists.
ApiRequestSent == rd.stage \in {"api", "dirs", "exists"}

\* C25: while the cooldown is active no operation sends a request to the
\* API, an operation that was in the middle of its sweep when an answer
\* started the cooldown included.
C25_NoApiRequestUnderCooldown ==
  rateLimitResetTime > now => ~ApiRequestSent

\* readRuleFile is at the last candidate of its sweep.
AtLastCandidate ==
  /\ rd.di = Len(directories(path))
  /\ rd.ei = Len(extensions)

\* C26: a readRuleFile called while the cooldown timestamp is in the future
\* sends no request to the API, and its outcome is the outcome of the sweep
\* of the raw URLs: the text of the first file found, or the failure after
\* the last candidate.
C26_CooldownSkipsApiSweep ==
  [][/\ (rd'.stage = "api" /\ ~(SameReadRuleFile /\ rd.stage \in {"api", "raw"}))
          => rateLimitResetTime' <= now
     /\ (rd.stage = "raw" /\ rd.rawFrom = "cooldown")
          => \/ /\ SameReadRuleFile
                /\ rd'.stage = "raw"
                /\ rd'.rawFrom = "cooldown"
                /\ ~AtLastCandidate
                /\ cache' = cache
             \/ /\ ~(SameReadRuleFile /\ rd'.stage \in {"api", "raw"})
                /\ rd.dom \in DOMAIN cache'
                /\ cache'[rd.dom].domain = rd.dom
                /\ "file" \in EntryTypes(directories(path)[rd.di],
                                         rd.dom \o extensions[rd.ei])
             \/ /\ ~(SameReadRuleFile /\ rd'.stage \in {"api", "raw"})
                /\ rd.dom \notin DOMAIN cache'
                /\ AtLastCandidate
    ]_vars

\* A readRuleFile that started under the cooldown is at the last raw URL.
C26_Witness ==
  /\ rd.stage = "raw"
  /\ rd.rawFrom = "cooldown"
  /\ rateLimitResetTime > now
  /\ AtLastCandidate

\* The candidates of readRuleFile: directory and extension indexes, and
\* their nested order.
Candidates == (DOMAIN directories(path)) \X (DOMAIN extensions)
Before(c1, c2) == c1[1] < c2[1] \/ (c1[1] = c2[1] /\ c1[2] < c2[2])
NextCandidate(c) ==
  IF c[2] < Len(extensions) THEN <<c[1], c[2] + 1>> ELSE <<c[1] + 1, 1>>
IsFileCandidate(d, c) ==
  "file" \in EntryTypes(directories(path)[c[1]], d \o extensions[c[2]])

\* The readRuleFile call that is running sends another request.
ReadRuleFileGoesOn == SameReadRuleFile /\ rd'.stage \in {"api", "raw"}

C28_ThrottledSweepKeepsCachedListing ==
  [][(rd.stage = "dirs" /\ rd'.stage # "dirs" /\ rd'.throttled)
       => IF directoryCache.has
            THEN /\ directoryCache' = directoryCache
                 /\ rd'.listed = extractDomainsFromDirectoryData(directoryCache.data)
            ELSE /\ Len(rd'.listed) = Len(FALLBACK_DOMAINS)
                 /\ rd'.listed = FALLBACK_DOMAINS
     ]_vars

\* list_rules is called, and with it listRuleFiles, while a cached listing
\* is younger than DIRECTORY_CACHE_TTL.
ListRuleFilesWithValidCache ==
  /\ ReaderIdle
  /\ rd'.op = "list_rules"
  /\ directoryCache.has
  /\ now - directoryCache.timestamp < DIRECTORY_CACHE_TTL

\* C29: listRuleFiles called while a cached listing is younger than ten
\* minutes returns the domains of that listing, sends no request and leaves
\* the directory cache and the cooldown timestamp as they are, under the
\* cooldown or not.
C29_ValidCachedListingIsReturned ==
  [][ListRuleFilesWithValidCache
       => /\ rd'.stage # "dirs"
          /\ rd'.answered = <<>>
          /\ directoryCache' = directoryCache
          /\ rateLimitResetTime' = rateLimitResetTime
          /\ rd'.listed = extractDomainsFromDirectoryData(directoryCache.data)
     ]_vars

\* list_rules answered from a listing cached earlier, under the cooldown.
C29_Witness ==
  /\ rd.op = "list_rules"
  /\ rd.stage = "done"
  /\ directoryCache.has
  /\ directoryCache.timestamp < now
  /\ now - directoryCache.timestamp < DIRECTORY_CACHE_TTL
  /\ rateLimitResetTime > now
  /\ rd.answered = <<>>
  /\ rd.listed = extractDomainsFromDirectoryData(directoryCache.data)
  /\ rd.listed = <<A, B>>

\* The executions of getRuleContentSafe that created a promise which has
\* not settled yet.
PendingCreators ==
  {p \in Reqs \X ItemIndexes :
     /\ p[2] <= Len(req[p[1]].items)
     /\ req[p[1]].items[p[2]].role = "create"
     /\ req[p[1]].items[p[2]].pc # "done"}

\* The executions of getRuleContentSafe that have not returned yet.
PendingSafeCalls ==
  {p \in Reqs \X ItemIndexes :
     /\ p[2] <= Len(req[p[1]].items)
     /\ req[p[1]].items[p[2]].role \in {"create", "join"}
     /\ req[p[1]].items[p[2]].pc # "done"}

\* C30: the in-flight entry of a domain is in the table from the moment its
\* resolution starts, before another task runs, and leaves it when the
\* resolution settles, whatever its outcome: between two tasks the table
\* holds exactly the promises of the resolutions that have not settled,
\* and it is empty when no getRuleContentSafe is pending.
C30_InFlightTableHoldsPendingOnly ==
  /\ \A D \in DOMAIN requestPromises :
       /\ requestPromises[D] \in PendingCreators
       /\ req[requestPromises[D][1]].items[requestPromises[D][2]].dom = D
  /\ \A p \in PendingCreators :
       LET D == req[p[1]].items[p[2]].dom
       IN  D \in DOMAIN requestPromises /\ requestPromises[D] = p
  /\ PendingSafeCalls = {} => requestPromises = EmptyMap

\* A resolution settled with null and its entry left the table, while the
\* resolution of another domain is pending with its entry in the table.
C30_Witness ==
  /\ requestPromises # EmptyMap
  /\ \E r \in Reqs :
       \E k \in 1..Len(req[r].items) :
         /\ req[r].items[k].role = "create"
         /\ req[r].items[k].pc = "done"
         /\ req[r].items[k].out.status = "fulfilled"
         /\ req[r].items[k].out.value.isNull
         /\ req[r].items[k].dom \notin DOMAIN requestPromises

\* C40: in every reachable state the content map and the timestamp map of
\* the manager have the same keys: insertion, lazy eviction and clearCache
\* update both maps together.
C40_MapsHaveSameKeys == DOMAIN cache = DOMAIN cacheTimestamps

\* A was inserted a TTL or more after the start of the run, by the
\* getRuleContent that completed last, while the entry of B inserted at the
\* start has expired and waits in both maps for its lazy eviction.
C40_Witness ==
  /\ A \in DOMAIN cache
  /\ A \in DOMAIN cacheTimestamps
  /\ cacheTimestamps[A] >= StartTime + CACHE_TTL
  /\ lastDone.has /\ lastDone.dom = A /\ lastDone.ins = cacheTimestamps[A]
  /\ B \in DOMAIN cache
  /\ cacheTimestamps[B] = StartTime

\* In this step an execution of getRuleContent ends without a RuleContent:
\* ruleExists said no, or readRuleFile threw.
FailedResolutionEnds ==
  \E r \in Reqs, k \in {0} \cup ItemIndexes :
    \/ RuleExistsReturn(r, k, FALSE)
    \/ ReadRuleFileReturn(r, k, [ok |-> FALSE, text |-> ""])

\* In this step call r starts getRuleContent(D) and suspends in the file
\* reader.
StartsFetchOf(r, D) ==
  /\ StartsGetRuleContent(r)
  /\ req'[r].items[1].dom = D
  /\ req'[r].items[1].pc \in {"exists", "read"}

C34_ClearedEntryStaysOutUntilNewResolution ==
  [][\A e \in Execs :
       (Unsettled(e) /\ Res(e).stale /\ Res(e)'.pc = "done"
          /\ ~Cached(Res(e).dom))
         => ~Cached(Res(e).dom)']_vars

\* The content of D changed with the repository.
ContentChanged(D) ==
  ServedTextIn(RemoteRules, D) # ServedTextIn(RemoteRulesLater, D)

\* The cache holds for D the content of the repository after the change.
HoldsNewerContent(D) ==
  /\ Cached(D)
  /\ cache[D].content = ServedTextIn(RemoteRulesLater, D)

\* C35: once the cache holds content of D that was fetched after the
\* repository changed, no resolution that completes later puts the content
\* from before the change in its place.
C35_LaterCompletionKeepsNewerContent ==
  [][\A D \in SafeDomains :
       (ContentChanged(D) /\ HoldsNewerContent(D) /\ Cached(D)')
         => HoldsNewerContent(D)']_vars

\* In this step a request to the API is answered with the status the
\* repository implies, a 200 or a 404.
ApiAnswersOkOrNotFound ==
  \E resp \in ApiResponses :
    /\ resp.kind = "faithful"
    /\ ApiResponse(resp) \/ DirResponse(resp) \/ ExistsResponse(resp)

\* C38: an answer of the API that is a success or a 404 does not start the
\* cooldown: when the cooldown timestamp is not in the future before such an
\* answer, it is not in the future after it.
C38_CooldownOnlyAfterThrottling ==
  [][(ApiAnswersOkOrNotFound /\ rateLimitResetTime <= now)
       => rateLimitResetTime' <= now']_vars

\* The domains listRuleFiles returns for a directory that holds the one file
\* the name was given to.
ListedForProbe ==
  extractDomainsFromDirectoryData(<<File(probe.name \o probe.ext)>>)

\* get_rules accepts the request for domain d: validation and sanitizing
\* pass.
GetRulesAccepts(d) ==
  LET v == validateDomainInput(Str(d), NoDomains)
  IN  v.ok /\ sanitizeDomains(v.list).ok

\* C37: every domain the listing gives for a file is accepted by the input
\* validation of get_rules.
C37_ListedDomainsAcceptedByGetRules ==
  probe.applied
    => \A i \in DOMAIN ListedForProbe : GetRulesAccepts(ListedForProbe[i])

\* The characters of a valid domain name: letters, digits, dot, hyphen and
\* underscore.
DomainNameChars ==
  {"a", "b", "c", "d", "e", "f", "g", "h", "i", "j", "k", "l", "m", "n", "o",
   "p", "q", "r", "s", "t", "u", "v", "w", "x", "y", "z",
   "A", "B", "C", "D", "E", "F", "G", "H", "I", "J", "K", "L", "M", "N", "O",
   "P", "Q", "R", "S", "T", "U", "V", "W", "X", "Y", "Z",
   "0", "1", "2", "3", "4", "5", "6", "7", "8", "9", ".", "-", "_"}
ValidName(d) == d # <<>> /\ \A i \in 1..Len(d) : d[i] \in DomainNameChars

\* The names of the denylist.
DeniedNames ==
  {<<"R", "E", "A", "D", "M", "E", ".", "m", "d">>,
   <<"C", "O", "N", "T", "R", "I", "B", "U", "T", "I", "N", "G", ".", "m", "d">>,
   <<"C", "O", "D", "E", "_", "O", "F", "_", "C", "O", "N", "D", "U", "C", "T",
     ".", "m", "d">>,
   <<"S", "E", "C", "U", "R", "I", "T", "Y", ".", "m", "d">>,
   <<"S", "U", "P", "P", "O", "R", "T", ".", "m", "d">>,
   <<"L", "I", "C", "E", "N", "S", "E", ".", "m", "d">>}

HasCompoundEnding(n) ==
  \/ EndsWith(n, <<".", "c", "h", "a", "t", "m", "o", "d", "e", ".", "m", "d">>)
  \/ EndsWith(n, <<".", "p", "r", "o", "m", "p", "t", ".", "m", "d">>)
  \/ EndsWith(n, <<".", "i", "n", "s", "t", "r", "u", "c", "t", "i", "o", "n",
                   "s", ".", "m", "d">>)
HasPlainEnding(n) ==
  EndsWith(n, <<".", "m", "d">>) \/ EndsWith(n, <<".", "m", "d", "c">>)

\* The directory of the listing holds one entry, and the entry is listed.
OneEntry == probe.applied /\ Len(probe.data) = 1
EntryListed == probe.out # <<>>

\* C32: an entry whose derived domain is valid is listed if and only if it
\* is a file and its name has a compound ending, or a plain ending and is
\* not one of the names of the denylist.
C32_RuleFilesAreExactlyTheNamedOnes ==
  (OneEntry /\ ValidName(extractDomainFromFilename(probe.data[1].name)))
    => (EntryListed
          <=> /\ probe.data[1].type = "file"
              /\ \/ HasCompoundEnding(probe.data[1].name)
                 \/ /\ HasPlainEnding(probe.data[1].name)
                    /\ probe.data[1].name \notin DeniedNames)

\* C32 (amended): the same, where a name with the plain ending .md is also
\* left out when it starts with README.
C32_RuleFilesAreTheNamedOnesNotReadme ==
  (OneEntry /\ ValidName(extractDomainFromFilename(probe.data[1].name)))
    => (EntryListed
          <=> /\ probe.data[1].type = "file"
              /\ \/ HasCompoundEnding(probe.data[1].name)
                 \/ /\ HasPlainEnding(probe.data[1].name)
                    /\ probe.data[1].name \notin DeniedNames
                    /\ ~(/\ EndsWith(probe.data[1].name, <<".", "m", "d">>)
                         /\ StartsWith(probe.data[1].name,
                                       <<"R", "E", "A", "D", "M", "E">>)))

\* READMEa.md, a file that is not on the denylist, was left out of the
\* listing.
C32_Witness ==
  /\ OneEntry
  /\ probe.data[1] = File(Readme \o A \o ExtMd)
  /\ ~EntryListed

\* C33: every domain of a listing is a valid name, and every rule file whose
\* derived domain is valid has its domain in the listing, whatever entries
\* come before it.
C33_ListingHoldsTheValidDomains ==
  probe.applied
    => /\ \A i \in DOMAIN probe.out : ValidName(probe.out[i])
       /\ \A j \in DOMAIN probe.data :
            LET e == probe.data[j]
            IN  (/\ e.type = "file"
                 /\ isRuleFile(e.name)
                 /\ ValidName(extractDomainFromFilename(e.name)))
                  => \E i \in DOMAIN probe.out :
                       probe.out[i] = extractDomainFromFilename(e.name)

\* The file a@.md was skipped and the file a.md after it is listed.
C33_Witness ==
  /\ probe.applied
  /\ probe.data = <<File(BadA \o ExtMd), File(A \o ExtMd)>>
  /\ probe.out = <<A>>

\* C39: when every request to the file reader is answered, every call of
\* getRuleContent, getRuleContentSafe, getMultipleRuleContents and
\* listAvailableDomains returns in the end, whatever other calls are pending
\* and whether or not it joined the promise of another call.
C39_EveryCallReturns ==
  \A r \in Reqs :
    (req[r].kind \in {"getRuleContent", "getRuleContentSafe",
                      "getMultipleRuleContents", "list_rules"})
      ~> (req[r].phase = "done")

\* A getRuleContentSafe that joined the promise of another call has
\* returned what that call returns.
C39_Witness ==
  \E r \in Reqs, r2 \in Reqs :
    /\ r # r2
    /\ req[r].kind = "getRuleContentSafe" /\ req[r].phase = "done"
    /\ req[r].items[1].role = "join"
    /\ req[r2].phase = "done" /\ req[r2].items # <<>>
    /\ req[r2].items[1].role = "create"
    /\ req[r].items[1].out = req[r2].items[1].out

\* The entry of the cache for D is the same before and after the step.
SameEntry(D) ==
  /\ Cached(D) <=> Cached(D)'
  /\ Cached(D) => (/\ cache'[D] = cache[D]
                   /\ cacheTimestamps'[D] = cacheTimestamps[D])

\* C31: between the check of the cache that getRuleContent(D) makes when it
\* starts and the update it makes when its read returns, no other task
\* changes the entry of D: while an execution stays suspended in the file
\* reader, every step leaves the entry of its domain as it is.
C31_NoTaskBetweenCheckAndUpdate ==
  [][\A D \in CallDomains :
       \A e \in Resolving(D) : e \in Resolving(D)' => SameEntry(D)]_vars
====
